---- MODULE Spec2Model ----
(***************************************************************************)
(* MindGuard: the behavioural risk engines and the emotion inference       *)
(* engine, modelled from the Python sources.                               *)
(*                                                                         *)
(* Numbers.  Risk scores are Python floats built by adding the literals     *)
(* 0.05 .. 0.4 and are held here as integers in units of 1/10000 (Unit is  *)
(* 1.0).  For every combination of rules that can fire, in both engines,   *)
(* the binary floating-point sum compares with the thresholds (0.3, 0.4,   *)
(* 0.6, 0.7, 1.0) exactly as the decimal sum does and round(risk, 2) gives *)
(* the decimal sum, so the integer arithmetic below is the arithmetic of   *)
(* the code on every reachable value.  Hours are floats in [0, 24] and are *)
(* held as integers in units of 1/HourUnit hour.                           *)
(***************************************************************************)
EXTENDS Integers, Sequences, FiniteSets, TLC

VARIABLES
    metrics,      \* the BehavioralData of the request being evaluated
    canon,        \* what calculate_risk_score returned to /predict (backend/main.py)
    canonPrev,    \* what it returned to the previous call on the same input
    canonResp,    \* the response of that /predict
    simple,       \* result of the simpler engine's predict_risk
    text,         \* the journal text of the /analyze-text request
    env,          \* the process environment: OPENAI_API_KEY, openai importable
    remote,       \* what the remote call of the last analyze_emotions did
    emo,          \* what the last analyze_emotions call returned or raised
    calls,        \* remote attempts and fallback runs of the last call
    analysis,     \* the response of the last /analyze-text request
    repo_data,    \* repository._data: the stored entries, oldest first
    next_id,      \* repository._next_id
    adds,         \* how many times add ran since construction or the last clear
    retired,      \* the identifiers add returned before the last clear
    resp,         \* the last request to backend/app and its response
    call,         \* the last APIClient call and what the transport did with it
    ret,          \* what that call returned or raised
    threads,      \* where each request thread is in repository.add, and its locals
    dash,         \* the last predict_risk call of the dashboard and its result
    integrated,   \* what the scorer of src/app.py returned for the request
    suggested,    \* the last get_intervention_suggestion call and its result
    held          \* the list a direct caller of the repository got from its last
                  \* get_all or get_latest, and what the caller did to it

riskVars == <<metrics, canon, canonPrev, canonResp, simple>>
emoVars == <<text, env, remote, emo, calls, analysis>>
storeVars == <<repo_data, next_id, adds, retired, resp>>
clientVars == <<call, ret>>
threadVars == <<threads>>
dashVars == <<dash>>
scorerVars == <<integrated, suggested>>
callerVars == <<held>>
vars ==
    <<metrics, canon, canonPrev, canonResp, simple, text, env, remote, emo, calls, analysis,
      repo_data, next_id, adds, retired, resp, call, ret, threads, dash, integrated,
      suggested, held>>

\* An absent value is the empty sequence, a present one a one-element sequence.
None == <<>>
Some(v) == <<v>>

\* The store of backend/app as constructed and the API client before its
\* first call, for the specifications that do not run them.
StoreIdle ==
    /\ repo_data = <<>>
    /\ next_id = 1
    /\ adds = 0
    /\ retired = {}
    /\ resp = None
ClientIdle ==
    /\ call = None
    /\ ret = None
\* No request thread in repository.add, no dashboard call made, the scorer of
\* src/app.py and get_intervention_suggestion not called.
ThreadsIdle == threads = <<>>
DashIdle == dash = None
ScorersIdle == integrated = None /\ suggested = None
\* No list of the repository in the hands of a caller.
CallerIdle == held = None

-----------------------------------------------------------------------------
(* Bounds and units *)

HourUnit == 10
MaxMessages == 20
MaxSteps == 8000
Unit == 100 * 100

Min(a, b) == IF a <= b THEN a ELSE b
Max(a, b) == IF a >= b THEN a ELSE b

\* round(x, 2) on a value in 1/10000: to the nearest 1/100, ties to even.
Round2(x) ==
    LET q == x \div 100
        r == x % 100
    IN  IF r < 50 THEN q * 100
        ELSE IF r > 50 THEN (q + 1) * 100
        ELSE IF q % 2 = 0 THEN q * 100 ELSE (q + 1) * 100

\* f"{delta:.2f}" for 0 <= delta < 10.0
Fmt2(delta) ==
    LET h == Round2(delta) \div 100
    IN  ToString(h \div 100) \o "." \o ToString((h % 100) \div 10) \o ToString(h % 10)

-----------------------------------------------------------------------------
(* BehavioralData: the validated request body *)

MoodMin == 1
MoodMax == 10
HoursMax == 24

SleepVals ==
    {0, 4 * HourUnit - 1, 4 * HourUnit, 6 * HourUnit - 1, 6 * HourUnit, 8 * HourUnit}
MoodVals == {MoodMin, 3, 4, 5, 6, 8, MoodMax}
MessageVals == {0, 2, 3, 4, 5, 9, 10, 20, MaxMessages}
StepVals == {0, 999, 1000, 2999, 3000, 8000, MaxSteps}
UsageVals ==
    {2 * HourUnit, 6 * HourUnit, 6 * HourUnit + 1, 8 * HourUnit, 8 * HourUnit + 1,
     HoursMax * HourUnit}

BehavioralData ==
    [sleep_hours : SleepVals, mood_score : MoodVals, messages_sent : MessageVals,
     steps : StepVals, app_usage_hours : UsageVals]

\* The Field(ge=, le=) constraints of the model.
WellFormed(m) ==
    /\ 0 <= m.sleep_hours /\ m.sleep_hours <= HoursMax * HourUnit
    /\ MoodMin <= m.mood_score /\ m.mood_score <= MoodMax
    /\ 0 <= m.messages_sent
    /\ 0 <= m.steps
    /\ 0 <= m.app_usage_hours /\ m.app_usage_hours <= HoursMax * HourUnit

-----------------------------------------------------------------------------
(* The canonical engine: backend/risk_calculator.py *)

SevereSleep(m) == m.sleep_hours < 4 * HourUnit
\* Mutant: the second sleep rule without its lower bound.
ShortSleepOverlapping(m) == m.sleep_hours < 6 * HourUnit
ShortSleep(m) == 4 * HourUnit <= m.sleep_hours /\ m.sleep_hours < 6 * HourUnit
CriticalMood(m) == m.mood_score <= 3
LowMood(m) == 3 < m.mood_score /\ m.mood_score <= 5
\* Mutant: the comparison of the messaging rule reversed.
FewMessagesReversed(m) == m.messages_sent > 3
FewMessages(m) == m.messages_sent < 3
LowMovement(m) == m.steps < 1000
HeavyScreen(m) == m.app_usage_hours > 6 * HourUnit

\* Mutant: the action of a rule weighing 0.10 left out.
flag_heavy_only(acc, condition, delta, driver, action) ==
    IF condition
    THEN [risk    |-> acc.risk + delta,
          drivers |-> Append(acc.drivers, driver \o " (+" \o Fmt2(delta) \o ")"),
          actions |-> IF delta > 1000 THEN Append(acc.actions, action) ELSE acc.actions]
    ELSE acc

\* flag(condition, delta, driver, action), on the accumulated
\* (risk, drivers, actions)
flag(acc, condition, delta, driver, action) ==
    IF condition
    THEN [risk    |-> acc.risk + delta,
          drivers |-> Append(acc.drivers, driver \o " (+" \o Fmt2(delta) \o ")"),
          actions |-> IF action # "" THEN Append(acc.actions, action) ELSE acc.actions]
    ELSE acc

\* The seven flag(...) calls, in order.
FlagAll(m) ==
    LET a0 == [risk |-> 0, drivers |-> <<>>, actions |-> <<>>]
        a1 == flag(a0, SevereSleep(m), 3000, "Severely low sleep",
                   "Block 30 minutes for deep rest tonight")
        a2 == flag(a1, ShortSleep(m), 1500, "Not enough restorative sleep",
                   "Wind down 30 minutes earlier to aim for 6+ hours")
        a3 == flag(a2, CriticalMood(m), 4000, "Mood is critically low",
                   "Reach out to someone you trust and share how you feel")
        a4 == flag(a3, LowMood(m), 2000, "Mood trending downward",
                   "Do a short grounding exercise or journaling session")
        a5 == flag(a4, FewMessages(m), 1500, "Limited social touchpoints",
                   "Send a quick check-in message to a friend")
        a6 == flag(a5, LowMovement(m), 1000, "Low movement",
                   "Take a 5-minute walk or stretch break")
        a7 == flag(a6, HeavyScreen(m), 1000, "Heavy screen time",
                   "Try a mini digital detox for one hour")
    IN  a7

\* Mutant: the cap left out.
CapRiskMissing(risk) == risk
\* risk = min(risk, 1.0)
CapRisk(risk) == Min(risk, Unit)

BalancedDriver == "Balanced day - no major red flags detected."
BalancedAction == "Keep reinforcing the routines that made today feel balanced."

\* Mutant: a strict comparison at the high threshold.
IsHighStrict(risk) == risk > 7000
IsHigh(risk) == risk >= 7000
IsMedium(risk) == risk >= 4000

\* Mutant: the headline of a medium result chosen by the score.
ClassifyByScore(risk) ==
    IF risk >= 7000
    THEN [risk_level |-> "high",
          suggestion |-> "Please consider reaching out to a trusted friend or counselor today. Your wellbeing matters.",
          color      |-> "#FF6B6B"]
    ELSE IF risk >= 4000
    THEN [risk_level |-> "medium",
          suggestion |-> IF risk >= 5500
                         THEN "Please consider reaching out to a trusted friend or counselor today. Your wellbeing matters."
                         ELSE "Try a short walk or a quick breathing exercise. Small steps make a difference.",
          color      |-> "#FFE66D"]
    ELSE [risk_level |-> "low",
          suggestion |-> "You're doing great! Keep up the healthy habits.",
          color      |-> "#4ECDC4"]

\* The three return statements: level, headline and colour for the capped,
\* unrounded risk.  (The headline strings end in an emoji in the source.)
Classify(risk) ==
    IF IsHigh(risk)
    THEN [risk_level |-> "high",
          suggestion |-> "Please consider reaching out to a trusted friend or counselor today. Your wellbeing matters.",
          color      |-> "#FF6B6B"]
    ELSE IF IsMedium(risk)
    THEN [risk_level |-> "medium",
          suggestion |-> "Try a short walk or a quick breathing exercise. Small steps make a difference.",
          color      |-> "#FFE66D"]
    ELSE [risk_level |-> "low",
          suggestion |-> "You're doing great! Keep up the healthy habits.",
          color      |-> "#4ECDC4"]

\* Mutant: the default driver left out.
DefaultDriversMissing(drivers) == drivers
DefaultDrivers(drivers) == IF drivers = <<>> THEN <<BalancedDriver>> ELSE drivers
DefaultActions(actions) == IF actions = <<>> THEN <<BalancedAction>> ELSE actions

calculate_risk_score(m) ==
    LET acc  == FlagAll(m)
        risk == CapRisk(acc.risk)
        c    == Classify(risk)
    IN  [risk_score          |-> Round2(risk),
         risk_level          |-> c.risk_level,
         suggestion          |-> c.suggestion,
         color               |-> c.color,
         drivers             |-> DefaultDrivers(acc.drivers),
         recommended_actions |-> DefaultActions(acc.actions)]

\* RiskPrediction(...): risk_score is Field(ge=0, le=1); a value outside
\* makes the constructor raise.
RiskPrediction(r) ==
    IF 0 <= r.risk_score /\ r.risk_score <= Unit THEN r ELSE [error |-> "ValidationError"]

-----------------------------------------------------------------------------
(* The simpler engine: backend/app/risk_calculator.py *)

INTERVENTIONS ==
    [low    |-> {"Keep up the good work! Stay connected with friends.",
                 "Great job maintaining your routine!",
                 "Continue your healthy habits."},
     medium |-> {"Consider taking a short walk today.",
                 "Try a 5-minute breathing exercise.",
                 "Reach out to a friend or family member.",
                 "Take a break from screens for 30 minutes."},
     high   |-> {"Please talk to a trusted friend or family member today.",
                 "Consider contacting a counselor or mental health professional.",
                 "Call a mental health helpline if you're feeling overwhelmed.",
                 "Reach out to someone you trust - you don't have to face this alone."}]

SimpleSleep(m) ==
    IF m.sleep_hours < 4 * HourUnit THEN 3000
    ELSE IF m.sleep_hours < 6 * HourUnit THEN 1500 ELSE 0
SimpleMood(m) ==
    IF m.mood_score <= 3 THEN 4000
    ELSE IF m.mood_score <= 5 THEN 2000 ELSE 0
SimpleSocial(m) ==
    IF m.messages_sent < 5 THEN 2000
    ELSE IF m.messages_sent < 10 THEN 1000 ELSE 0
SimpleScreen(m) ==
    IF m.app_usage_hours > 8 * HourUnit THEN 1000
    ELSE IF m.app_usage_hours > 6 * HourUnit THEN 500 ELSE 0
SimpleMovement(m) ==
    IF m.steps < 1000 THEN 1000
    ELSE IF m.steps < 3000 THEN 500 ELSE 0

\* min(max(risk, 0.0), 1.0)
Clamp01(risk) == Min(Max(risk, 0), Unit)

simple_calculate_risk_score(m) ==
    Clamp01(SimpleSleep(m) + SimpleMood(m) + SimpleSocial(m) + SimpleScreen(m) + SimpleMovement(m))

\* Mutant: the thresholds of the canonical engine.
get_risk_level_canonical(risk_score) ==
    IF risk_score < 4000 THEN "low"
    ELSE IF risk_score < 7000 THEN "medium"
    ELSE "high"

get_risk_level(risk_score) ==
    IF risk_score < 3000 THEN "low"
    ELSE IF risk_score < 6000 THEN "medium"
    ELSE "high"

\* Mutant: a level that is not a key of the table draws from the high pool.
get_intervention_suggestion_default_high(risk_level) ==
    IF risk_level \in DOMAIN INTERVENTIONS THEN INTERVENTIONS[risk_level]
    ELSE INTERVENTIONS["high"]

\* INTERVENTIONS.get(risk_level, INTERVENTIONS["medium"]); random.choice draws
\* any member.
get_intervention_suggestion(risk_level) ==
    IF risk_level \in DOMAIN INTERVENTIONS THEN INTERVENTIONS[risk_level]
    ELSE INTERVENTIONS["medium"]

-----------------------------------------------------------------------------
(* Strings and numbers of the emotion engine: backend/ai_insights.py *)

\* needle in hay, on Python strings
Contains(hay, needle) ==
    \E i \in 1..(Len(hay) - Len(needle) + 1) : SubSeq(hay, i, i + Len(needle) - 1) = needle

UpperCase == "ABCDEFGHIJKLMNOPQRSTUVWXYZ"
LowerCase == "abcdefghijklmnopqrstuvwxyz"

LowerChar(c) ==
    IF \E i \in 1..Len(UpperCase) : SubSeq(UpperCase, i, i) = c
    THEN LET i == CHOOSE j \in 1..Len(UpperCase) : SubSeq(UpperCase, j, j) = c
         IN  SubSeq(LowerCase, i, i)
    ELSE c

\* str.lower(), on the ASCII texts drawn here
RECURSIVE Lower(_)
Lower(s) ==
    IF Len(s) = 0 THEN ""
    ELSE LowerChar(SubSeq(s, 1, 1)) \o Lower(SubSeq(s, 2, Len(s)))

RECURSIVE Gcd(_, _)
Gcd(a, b) == IF b = 0 THEN a ELSE Gcd(b, a % b)
Abs(a) == IF a < 0 THEN 0 - a ELSE a

\* A float is held as an exact fraction n/d in lowest terms, d > 0.
Frac(n, d) ==
    LET g == Gcd(Abs(n), d)
    IN  [n |-> n \div g, d |-> d \div g]
FracLeq(a, b) == a.n * b.d <= b.n * a.d
FracLess(a, b) == a.n * b.d < b.n * a.d
\* min(a, b) of Python: b only when b < a
PyMin(a, b) == IF FracLess(b, a) THEN b ELSE a

\* round(x, 2) of a fraction, in hundredths: the nearest, ties to even
RoundHundredths(x) ==
    LET q == (100 * x.n) \div x.d
        r == (100 * x.n) % x.d
    IN  IF 2 * r < x.d THEN q
        ELSE IF 2 * r > x.d THEN q + 1
        ELSE IF q % 2 = 0 THEN q ELSE q + 1

Digits == "0123456789"
IsDigit(c) == \E i \in 1..10 : SubSeq(Digits, i, i) = c
DigitVal(c) == (CHOOSE i \in 1..10 : SubSeq(Digits, i, i) = c) - 1

RECURSIVE AllDigits(_)
AllDigits(s) ==
    Len(s) = 0 \/ (IsDigit(SubSeq(s, 1, 1)) /\ AllDigits(SubSeq(s, 2, Len(s))))

RECURSIVE DigitsVal(_)
DigitsVal(s) ==
    IF Len(s) = 0 THEN 0
    ELSE 10 * DigitsVal(SubSeq(s, 1, Len(s) - 1)) + DigitVal(SubSeq(s, Len(s), Len(s)))

RECURSIVE Pow10(_)
Pow10(k) == IF k = 0 THEN 1 ELSE 10 * Pow10(k - 1)

\* float(s) for a string s, on plain decimal literals [-]digits[.digits];
\* anything else here is a ValueError.
UnsignedPart(s) == IF Len(s) > 0 /\ SubSeq(s, 1, 1) = "-" THEN SubSeq(s, 2, Len(s)) ELSE s
PointAt(s) ==
    IF \E i \in 1..Len(s) : SubSeq(s, i, i) = "."
    THEN CHOOSE i \in 1..Len(s) : SubSeq(s, i, i) = "." /\ \A j \in 1..(i - 1) : SubSeq(s, j, j) # "."
    ELSE Len(s) + 1
IsDecimalLiteral(s) ==
    LET u == UnsignedPart(s)
        p == PointAt(u)
        whole == SubSeq(u, 1, p - 1)
        frac  == SubSeq(u, p + 1, Len(u))
    IN  /\ AllDigits(whole) /\ AllDigits(frac)
        /\ Len(whole) + Len(frac) > 0
ParseDecimal(s) ==
    LET u == UnsignedPart(s)
        p == PointAt(u)
        whole == SubSeq(u, 1, p - 1)
        frac  == SubSeq(u, p + 1, Len(u))
        mag   == DigitsVal(whole) * Pow10(Len(frac)) + DigitsVal(frac)
    IN  Frac(IF u = s THEN mag ELSE 0 - mag, Pow10(Len(frac)))

-----------------------------------------------------------------------------
(* The emotion engine: backend/ai_insights.py *)

\* The keyword tables, in the order the dicts are written (dicts iterate in
\* insertion order).
NEGATIVE_WORDS ==
    << <<"anxious", "anxiety">>, <<"scared", "fear">>, <<"afraid", "fear">>,
       <<"tired", "fatigue">>, <<"exhausted", "fatigue">>, <<"sad", "sadness">>,
       <<"depressed", "sadness">>, <<"lonely", "loneliness">>, <<"stress", "stress">>,
       <<"angry", "anger">> >>
POSITIVE_WORDS ==
    << <<"grateful", "gratitude">>, <<"happy", "joy">>, <<"excited", "excitement">>,
       <<"calm", "calm">>, <<"peaceful", "calm">> >>
STRESS_SIGNALS == <<"deadline", "pressure", "overwhelmed", "panic", "worry", "urgent">>

\* counts: Dict[str, int], held as the sequence of <<label, count>> in
\* insertion order.
DictGet(counts, label) ==
    IF \E i \in 1..Len(counts) : counts[i][1] = label
    THEN counts[CHOOSE i \in 1..Len(counts) : counts[i][1] = label][2]
    ELSE 0
\* counts[label] = counts.get(label, 0) + 1
DictIncrement(counts, label) ==
    IF \E i \in 1..Len(counts) : counts[i][1] = label
    THEN [i \in 1..Len(counts) |->
              IF counts[i][1] = label THEN <<label, counts[i][2] + 1>> ELSE counts[i]]
    ELSE Append(counts, <<label, 1>>)

\* for token, label in table.items(): if token in lowered: ...
RECURSIVE ScanTable(_, _, _, _)
ScanTable(table, i, lowered, counts) ==
    IF i > Len(table) THEN counts
    ELSE ScanTable(table, i + 1, lowered,
                   IF Contains(lowered, table[i][1])
                   THEN DictIncrement(counts, table[i][2]) ELSE counts)

CountLabels(lowered) ==
    ScanTable(POSITIVE_WORDS, 1, lowered, ScanTable(NEGATIVE_WORDS, 1, lowered, <<>>))

\* Mutant: the last key of maximal count.
MaxKeyLast(counts) ==
    LET i == CHOOSE j \in 1..Len(counts) :
                 /\ \A k \in 1..Len(counts) : counts[k][2] <= counts[j][2]
                 /\ \A k \in (j + 1)..Len(counts) : counts[k][2] < counts[j][2]
    IN  counts[i][1]

\* max(counts, key=counts.get): the first key, in iteration order, of
\* maximal count
MaxKey(counts) ==
    LET i == CHOOSE j \in 1..Len(counts) :
                 /\ \A k \in 1..Len(counts) : counts[k][2] <= counts[j][2]
                 /\ \A k \in 1..(j - 1) : counts[k][2] < counts[j][2]
    IN  counts[i][1]

\* [k for k in counts if k != primary]
RECURSIVE KeysExcept(_, _)
KeysExcept(counts, primary) ==
    IF counts = <<>> THEN <<>>
    ELSE IF Head(counts)[1] # primary
         THEN <<Head(counts)[1]>> \o KeysExcept(Tail(counts), primary)
         ELSE KeysExcept(Tail(counts), primary)

RECURSIVE SumValues(_)
SumValues(counts) == IF counts = <<>> THEN 0 ELSE Head(counts)[2] + SumValues(Tail(counts))

\* sum(1 for signal in _STRESS_SIGNALS if signal in lowered)
StressHits(lowered) ==
    Cardinality({i \in 1..Len(STRESS_SIGNALS) : Contains(lowered, STRESS_SIGNALS[i])})

\* Mutant: "high" only above two signals.
StressLevelAboveTwo(stress_hits) ==
    IF stress_hits > 2 THEN "high" ELSE IF stress_hits = 1 THEN "medium" ELSE "low"

StressLevel(stress_hits) ==
    IF stress_hits >= 2 THEN "high" ELSE IF stress_hits = 1 THEN "medium" ELSE "low"

build_summary(primary, stress_level) ==
    "Your journal shows dominant " \o primary \o " tones with " \o stress_level \o " stress."

\* Mutant: the primary emotion looked at before the stress level.
build_recommendation_emotion_first(primary, stress_level) ==
    IF primary \in {"gratitude", "joy", "calm"}
    THEN "Keep reinforcing these positive habits and note what sparked them."
    ELSE IF stress_level = "high"
    THEN "Pause for deep breathing and reach out to a trusted person today."
    ELSE IF stress_level = "medium"
    THEN "Schedule a short restorative activity and share your feelings with someone you trust."
    ELSE "Take a mindful break and practice gentle movement or journaling."

build_recommendation(primary, stress_level) ==
    IF stress_level = "high"
    THEN "Pause for deep breathing and reach out to a trusted person today."
    ELSE IF stress_level = "medium"
    THEN "Schedule a short restorative activity and share your feelings with someone you trust."
    ELSE IF primary \in {"gratitude", "joy", "calm"}
    THEN "Keep reinforcing these positive habits and note what sparked them."
    ELSE "Take a mindful break and practice gentle movement or journaling."

\* Mutant: the confidence not capped.
ConfidenceUncapped(counts) ==
    IF counts = <<>> THEN Frac(55, 100)
    ELSE Frac(DictGet(counts, MaxKey(counts)), SumValues(counts))

\* if not counts: ... else: ...
PrimaryOf(counts) == IF counts = <<>> THEN "calm" ELSE MaxKey(counts)
SupportingOf(counts) == IF counts = <<>> THEN <<>> ELSE KeysExcept(counts, MaxKey(counts))
ConfidenceOf(counts) ==
    IF counts = <<>> THEN Frac(55, 100)
    ELSE PyMin(Frac(9, 10), Frac(DictGet(counts, MaxKey(counts)), SumValues(counts)))

fallback_emotion_analysis(t) ==
    LET lowered == Lower(t)
        counts == CountLabels(lowered)
        primary == PrimaryOf(counts)
        stress_level == StressLevel(StressHits(lowered))
    IN  [primary_emotion     |-> primary,
         confidence          |-> ConfidenceOf(counts),
         supporting_emotions |-> SupportingOf(counts),
         stress_level        |-> stress_level,
         summary             |-> build_summary(primary, stress_level),
         recommendation      |-> build_recommendation(primary, stress_level)]

-----------------------------------------------------------------------------
(* The remote path of analyze_emotions *)

\* os.getenv("OPENAI_API_KEY") is unset, empty or a key; the openai package
\* is importable or not.
ApiKeys == {None, Some(""), Some("sk-test")}
Environments == [api_key : ApiKeys, openai : BOOLEAN]

\* Mutant: a client built whenever a key is set.
build_client_key_only(e) ==
    IF e.api_key = None \/ e.api_key = Some("") THEN None ELSE Some("OpenAI")

\* _build_client(): None without a key or without the package
build_client(e) ==
    IF e.api_key = None \/ e.api_key = Some("") \/ ~e.openai THEN None ELSE Some("OpenAI")

\* JSON values a "confidence" key can hold: a number, a string, null.
JNumber(n, d) == [t |-> "number", num |-> Frac(n, d), str |-> ""]
JString(s) == [t |-> "string", num |-> Frac(0, 1), str |-> s]
JNull == [t |-> "null", num |-> Frac(0, 1), str |-> ""]

\* float(v): raises TypeError on None, ValueError on a string that is no
\* number
FloatError(v) ==
    IF v.t = "null" THEN "TypeError"
    ELSE IF v.t = "string" /\ ~IsDecimalLiteral(v.str) THEN "ValueError"
    ELSE ""
FloatOf(v) == IF v.t = "string" THEN ParseDecimal(v.str) ELSE v.num

\* The JSON object of a response: each of the six keys absent (None) or
\* present with a value.
PrimaryValues == {"joy", "calm"}
ConfidenceValues ==
    {JNumber(4, 5), JNumber(3, 2), JNumber(-1, 5), JString("0.8"), JString("high"), JNull}
SupportingValues == {<<"calm">>, <<"joy", "sadness">>}
StressValues == {"high"}
SummaryValues == {"Mostly upbeat with some worry."}
RecommendationValues == {"Call a friend tonight."}

Opt(S) == {None} \cup {Some(v) : v \in S}

Payloads ==
    [primary_emotion : Opt(PrimaryValues), confidence : Opt(ConfidenceValues),
     supporting_emotions : Opt(SupportingValues), stress_level : Opt(StressValues),
     summary : Opt(SummaryValues), recommendation : Opt(RecommendationValues)]

EmptyPayload ==
    [primary_emotion |-> None, confidence |-> None, supporting_emotions |-> None,
     stress_level |-> None, summary |-> None, recommendation |-> None]

\* What the one remote call can do: client.responses.create raises
\* (transport error, timeout, non-2xx status), the response has no output
\* item, its text is not JSON, the JSON is not an object, or it is an object.
ApiErrors == {"APIConnectionError", "APITimeoutError", "APIStatusError"}
RemoteOutcomes ==
    {[kind |-> "raises", exc |-> e, payload |-> EmptyPayload] : e \in ApiErrors}
    \cup {[kind |-> k, exc |-> "", payload |-> EmptyPayload] :
              k \in {"no_output", "not_json", "json_array"}}
    \cup {[kind |-> "json_object", exc |-> "", payload |-> p] : p \in Payloads}

\* No call is made without a client.
NotCalled == [kind |-> "not_called", exc |-> "", payload |-> EmptyPayload]
OutcomesIn(e) == IF build_client(e) = None THEN {NotCalled} ELSE RemoteOutcomes

\* payload.get(key, default)
PayloadGet(field, default) == IF field = None THEN default ELSE field[1]

DefaultPrimary == "calm"
\* Mutant: the heuristic's default confidence used for a missing key.
DefaultConfidenceHeuristic == JNumber(55, 100)
DefaultConfidence == JNumber(65, 100)
DefaultSupporting == <<>>
DefaultStress == "low"
DefaultSummary == "You appear balanced with no alarming emotional spikes."
DefaultRecommendation == "Keep reflecting on your feelings and share them with a friend."

NoEmotionResult ==
    [primary_emotion |-> "", confidence |-> Frac(0, 1), supporting_emotions |-> <<>>,
     stress_level |-> "", summary |-> "", recommendation |-> ""]

Returned(v) == [ok |-> TRUE, value |-> v, exc |-> ""]
Raised(e) == [ok |-> FALSE, value |-> NoEmotionResult, exc |-> e]

\* EmotionResult(primary_emotion=payload.get(...), confidence=float(...), ...)
ResultFromPayload(p) ==
    LET c == PayloadGet(p.confidence, DefaultConfidence)
    IN  IF FloatError(c) # "" THEN Raised(FloatError(c))
        ELSE Returned(
                 [primary_emotion     |-> PayloadGet(p.primary_emotion, DefaultPrimary),
                  confidence          |-> FloatOf(c),
                  supporting_emotions |-> PayloadGet(p.supporting_emotions, DefaultSupporting),
                  stress_level        |-> PayloadGet(p.stress_level, DefaultStress),
                  summary             |-> PayloadGet(p.summary, DefaultSummary),
                  recommendation      |-> PayloadGet(p.recommendation, DefaultRecommendation)])

\* The body of the try block, for what the remote call does.
TryRemote(o) ==
    CASE o.kind = "raises" -> Raised(o.exc)
      [] o.kind = "no_output" -> Raised("IndexError")
      [] o.kind = "not_json" -> Raised("JSONDecodeError")
      [] o.kind = "json_array" -> Raised("AttributeError")
      [] o.kind = "json_object" -> ResultFromPayload(o.payload)

\* Mutant: only the API's own errors caught.
ExceptionCaughtApiOnly(exc) == exc \in ApiErrors

\* except Exception: every exception raised in the try block is one.
ExceptionCaught(exc) ==
    exc \in ApiErrors \cup {"IndexError", "JSONDecodeError", "AttributeError", "ValueError", "TypeError"}

\* JournalEntry: text is Field(min_length=10, max_length=2000).
TextMinLength == 10
TextMaxLength == 2000
ValidJournalEntry(t) == TextMinLength <= Len(t) /\ Len(t) <= TextMaxLength

\* The journal texts: up to MaxPhrases phrases joined by blanks.
MaxPhrases == 2
Phrases ==
    {"I feel", "Grateful", "and calm today", "Unhappy", "SAD, depressed", "deadline pressure",
     "Anxious, urgent", "I feel grateful and calm today"}
RECURSIVE Sentences(_)
Sentences(k) ==
    IF k = 1 THEN Phrases
    ELSE Sentences(k - 1) \cup {s \o " " \o p : s \in Sentences(k - 1), p \in Phrases}
Texts == Sentences(MaxPhrases)

\* _fallback_emotion_analysis(text), tabulated over the texts
HeuristicResult == [t \in Texts |-> fallback_emotion_analysis(t)]

\* analyze_emotions(text) in environment e when the remote call does o: what
\* it returns or raises, and how many remote attempts and fallback runs it
\* made.
analyze_emotions(t, e, o) ==
    LET client == build_client(e)
        r == TryRemote(o)
    IN  IF client # None /\ r.ok
        THEN [ret |-> r, remote |-> 1, fallback |-> 0]
        ELSE IF client # None /\ ~ExceptionCaught(r.exc)
        THEN [ret |-> r, remote |-> 1, fallback |-> 0]
        ELSE [ret |-> Returned(HeuristicResult[t]),
              remote |-> IF client # None THEN 1 ELSE 0, fallback |-> 1]

\* EmotionResult.to_dict(): confidence rounded to two places (held in
\* hundredths).
to_dict(r) ==
    [primary_emotion     |-> r.primary_emotion,
     confidence          |-> RoundHundredths(r.confidence),
     supporting_emotions |-> r.supporting_emotions,
     stress_level        |-> r.stress_level,
     summary             |-> r.summary,
     recommendation      |-> r.recommendation]

\* EmotionAnalysis(**d): confidence is Field(ge=0, le=1).
EmotionAnalysisValid(d) == 0 <= d.confidence /\ d.confidence <= 100


-----------------------------------------------------------------------------
(* Risk specification: one validated request, evaluated by either engine *)

\* The emotion engine at rest, for the specifications that do not run it.
EmotionIdle ==
    /\ text = ""
    /\ env = [api_key |-> None, openai |-> FALSE]
    /\ remote = None
    /\ emo = None
    /\ calls = [remote |-> 0, fallback |-> 0]
    /\ analysis = None

InitRisk ==
    /\ CallerIdle
    /\ ThreadsIdle
    /\ DashIdle
    /\ ScorersIdle
    /\ EmotionIdle
    /\ StoreIdle
    /\ ClientIdle
    /\ metrics \in BehavioralData
    /\ canon = None
    /\ canonPrev = None
    /\ canonResp = None
    /\ simple = None

\* POST /predict of backend/main.py; a repeated call keeps the previous
\* response for comparison.
CanonicalPredict ==
    /\ canonPrev = None
    /\ canonPrev' = canon
    /\ canon' = Some(calculate_risk_score(metrics))
    /\ canonResp' = Some(RiskPrediction(calculate_risk_score(metrics)))
    /\ UNCHANGED <<metrics, simple, emoVars, storeVars, clientVars,
                 threadVars, dashVars, scorerVars, callerVars>>

\* predict_risk(data) of backend/app/risk_calculator.py
SimplePredict ==
    /\ LET risk_score == simple_calculate_risk_score(metrics)
           risk_level == get_risk_level(risk_score)
       IN  \E suggestion \in get_intervention_suggestion(risk_level) :
               simple' = Some([risk_score |-> risk_score, risk_level |-> risk_level,
                               suggestion |-> suggestion])
    /\ UNCHANGED <<metrics, canon, canonPrev, canonResp, emoVars, storeVars, clientVars,
                 threadVars, dashVars, scorerVars, callerVars>>

NextRisk == CanonicalPredict \/ SimplePredict

SpecRisk == InitRisk /\ [][NextRisk]_vars

-----------------------------------------------------------------------------
(* Emotion specification: one /analyze-text request, on one text in one
   environment.  The handler keeps nothing between requests. *)

RiskIdle ==
    /\ metrics = [sleep_hours |-> 0, mood_score |-> MoodMin, messages_sent |-> 0,
                  steps |-> 0, app_usage_hours |-> 0]
    /\ canon = None
    /\ canonPrev = None
    /\ canonResp = None
    /\ simple = None

InitEmotion ==
    /\ CallerIdle
    /\ ThreadsIdle
    /\ DashIdle
    /\ ScorersIdle
    /\ RiskIdle
    /\ StoreIdle
    /\ ClientIdle
    /\ text \in Texts
    /\ env \in Environments
    /\ remote = None
    /\ emo = None
    /\ calls = [remote |-> 0, fallback |-> 0]
    /\ analysis = None

NoBody ==
    [primary_emotion |-> "", confidence |-> 0, supporting_emotions |-> <<>>,
     stress_level |-> "", summary |-> "", recommendation |-> ""]

\* POST /analyze-text with a text the JournalEntry model rejects: answered
\* 422 before the handler runs.
RejectText ==
    /\ analysis = None
    /\ ~ValidJournalEntry(text)
    /\ analysis' = Some([status |-> 422, body |-> NoBody])
    /\ emo' = None
    /\ remote' = None
    /\ calls' = [remote |-> 0, fallback |-> 0]
    /\ UNCHANGED <<text, env, riskVars, storeVars, clientVars,
                 threadVars, dashVars, scorerVars, callerVars>>

\* POST /analyze-text: analyze_emotions(entry.text), then
\* EmotionAnalysis(**result.to_dict()); an exception leaving the handler is
\* answered 500.
AnalyzeText ==
    /\ analysis = None
    /\ ValidJournalEntry(text)
    /\ \E o \in OutcomesIn(env) :
           LET r == analyze_emotions(text, env, o)
           IN  /\ emo' = Some(r.ret)
               /\ remote' = IF r.remote = 1 THEN Some(o) ELSE None
               /\ calls' = [remote |-> r.remote, fallback |-> r.fallback]
               /\ analysis' =
                      IF r.ret.ok /\ EmotionAnalysisValid(to_dict(r.ret.value))
                      THEN Some([status |-> 200, body |-> to_dict(r.ret.value)])
                      ELSE Some([status |-> 500, body |-> NoBody])
    /\ UNCHANGED <<text, env, riskVars, storeVars, clientVars,
                 threadVars, dashVars, scorerVars, callerVars>>

NextEmotion == RejectText \/ AnalyzeText

SpecEmotion == InitEmotion /\ [][NextEmotion]_vars

-----------------------------------------------------------------------------
(* The entry store and the endpoints of backend/app *)

MaxEntries == 2

\* Request bodies.  A timestamp left out of the body is "".
SampleDay ==
    [sleep_hours |-> (15 * HourUnit) \div 2, mood_score |-> 7, messages_sent |-> 20,
     steps |-> 6000, app_usage_hours |-> (7 * HourUnit) \div 2, timestamp |-> ""]
HighRiskDay ==
    [sleep_hours |-> 2 * HourUnit, mood_score |-> 2, messages_sent |-> 1,
     steps |-> 200, app_usage_hours |-> 12 * HourUnit, timestamp |-> "2024-01-01T12:00:00"]
InDomain == {SampleDay, HighRiskDay}
OutOfDomain ==
    {[SampleDay EXCEPT !.sleep_hours = 30 * HourUnit],
     [SampleDay EXCEPT !.sleep_hours = 0 - 1],
     [SampleDay EXCEPT !.mood_score = MoodMin - 1],
     [SampleDay EXCEPT !.mood_score = MoodMax + 1],
     [SampleDay EXCEPT !.messages_sent = 0 - 1],
     [SampleDay EXCEPT !.steps = 0 - 1],
     [SampleDay EXCEPT !.app_usage_hours = HoursMax * HourUnit + 1],
     [SampleDay EXCEPT !.app_usage_hours = 0 - 1]}
Submissions == InDomain \cup OutOfDomain
\* Bodies of POST /predict, which stores nothing: the submissions, a grid
\* whose scores include 0.3 and 0.6, and two bodies scoring 0.25 and 0.55.
GridBodies ==
    [sleep_hours : {0, 8 * HourUnit}, mood_score : {MoodMin, 5, 8},
     messages_sent : {0, MaxMessages}, steps : {MaxSteps},
     app_usage_hours : {2 * HourUnit}, timestamp : {""}]
NearThreshold ==
    {[SampleDay EXCEPT !.mood_score = 5, !.app_usage_hours = 6 * HourUnit + 1],
     [SampleDay EXCEPT !.sleep_hours = 0, !.mood_score = 5,
                       !.app_usage_hours = 6 * HourUnit + 1]}
PredictBodies == Submissions \cup GridBodies \cup NearThreshold

\* Mutant: the upper bounds of the fields left out.
ValidBehavioralDataNoUpperBound(b) ==
    /\ 0 <= b.sleep_hours
    /\ MoodMin <= b.mood_score
    /\ 0 <= b.messages_sent
    /\ 0 <= b.steps
    /\ 0 <= b.app_usage_hours

\* BehavioralData of backend/app/models.py: the Field(ge=, le=) constraints
ValidBehavioralData(b) ==
    /\ 0 <= b.sleep_hours /\ b.sleep_hours <= HoursMax * HourUnit
    /\ MoodMin <= b.mood_score /\ b.mood_score <= MoodMax
    /\ 0 <= b.messages_sent
    /\ 0 <= b.steps
    /\ 0 <= b.app_usage_hours /\ b.app_usage_hours <= HoursMax * HourUnit

\* BehavioralDataResponse(id=..., ..., timestamp=data.timestamp or
\* datetime.now(timezone.utc)); every instant read from the clock is "now".
BehavioralDataResponse(id, b) ==
    [id |-> id, sleep_hours |-> b.sleep_hours, mood_score |-> b.mood_score,
     messages_sent |-> b.messages_sent, steps |-> b.steps,
     app_usage_hours |-> b.app_usage_hours,
     timestamp |-> IF b.timestamp = "" THEN "now" ELSE b.timestamp]

\* Mutant: the new entry put in front of the list.
repository_add_in_front(d, nid, b) ==
    [data |-> <<BehavioralDataResponse(nid, b)>> \o d, next_id |-> nid + 1,
     entry |-> BehavioralDataResponse(nid, b)]

\* repository.add(data): the store, the counter and the entry returned
repository_add(d, nid, b) ==
    [data |-> Append(d, BehavioralDataResponse(nid, b)), next_id |-> nid + 1,
     entry |-> BehavioralDataResponse(nid, b)]

\* repository.get_all(): a copy of the list
get_all(d) == [i \in 1..Len(d) |-> d[i]]

\* seq[start:] on a Python list: a negative start counts from the end, and
\* either is clipped to the list.
PySliceFrom(seq, start) ==
    LET lo == IF start < 0 THEN Max(Len(seq) + start, 0) ELSE Min(start, Len(seq))
    IN  SubSeq(seq, lo + 1, Len(seq))

\* Mutant: the n oldest entries.
get_oldest(d, n) == IF d # <<>> THEN SubSeq(d, 1, Min(Max(n, 0), Len(d))) ELSE <<>>

\* repository.get_latest(n): self._data[-n:] if self._data else []
get_latest(d, n) == IF d # <<>> THEN PySliceFrom(d, 0 - n) ELSE <<>>

\* repository.get_by_id(entry_id): the first entry of that id, [] for None
get_by_id(d, entry_id) ==
    IF \E i \in 1..Len(d) : d[i].id = entry_id
    THEN <<d[CHOOSE i \in 1..Len(d) :
                 d[i].id = entry_id /\ \A j \in 1..(i - 1) : d[j].id # entry_id]>>
    ELSE <<>>

\* Mutant: the counter kept by clear.
repository_clear_keeps_counter(nid) == [data |-> <<>>, next_id |-> nid]

\* repository.clear()
repository_clear(nid) == [data |-> <<>>, next_id |-> 1]

\* predict_risk(data) of backend/app/risk_calculator.py: the tuples it can
\* return, one for each suggestion random.choice can draw.
predict_risk(data) ==
    LET risk_score == simple_calculate_risk_score(data)
        risk_level == get_risk_level(risk_score)
    IN  {[risk_score |-> risk_score, risk_level |-> risk_level, suggestion |-> sg] :
            sg \in get_intervention_suggestion(risk_level)}

\* RiskPrediction of backend/app/models.py: risk_score is Field(ge=0, le=1)
AppRiskPredictionValid(p) == 0 <= p.risk_score /\ p.risk_score <= Unit

\* What an operation on backend/app was and what it answered: the HTTP
\* status (0 for a repository call made outside a request), the error
\* detail, the entries returned, the data the engine ran on, what the engine
\* returned and the prediction sent back.
Response(op, status, request, n, detail, entries, evaluated, raw, prediction) ==
    [op |-> op, status |-> status, request |-> request, n |-> n, detail |-> detail,
     entries |-> entries, evaluated |-> evaluated, raw |-> raw, prediction |-> prediction]

LatestCounts == (0 - 1)..(MaxEntries + 1)
EntryIds == 0..(MaxEntries + 1)

InitStore ==
    /\ CallerIdle
    /\ ThreadsIdle
    /\ DashIdle
    /\ ScorersIdle
    /\ RiskIdle
    /\ EmotionIdle
    /\ ClientIdle
    /\ repo_data = <<>>
    /\ next_id = 1
    /\ adds = 0
    /\ retired = {}
    /\ resp = None

\* POST /data with a body the BehavioralData model rejects: answered 422
\* before the handler runs.
RejectBehavioralData ==
    /\ \E b \in Submissions :
           /\ ~ValidBehavioralData(b)
           /\ resp' = Some(Response("add_behavioral_data", 422, Some(b), 0,
                                    "validation error", <<>>, None, None, None))
    /\ UNCHANGED <<repo_data, next_id, adds, retired, riskVars, emoVars, clientVars,
                 threadVars, dashVars, scorerVars, callerVars>>

\* POST /data: repository.add(data)
AddBehavioralData ==
    /\ Len(repo_data) < MaxEntries
    /\ \E b \in Submissions :
           /\ ValidBehavioralData(b)
           /\ LET r == repository_add(repo_data, next_id, b)
              IN  /\ repo_data' = r.data
                  /\ next_id' = r.next_id
                  /\ resp' = Some(Response("add_behavioral_data", 200, Some(b), 0, "",
                                           <<r.entry>>, None, None, None))
    /\ adds' = adds + 1
    /\ UNCHANGED <<retired, riskVars, emoVars, clientVars,
                 threadVars, dashVars, scorerVars, callerVars>>

\* GET /data: repository.get_all()
GetBehavioralData ==
    /\ resp' = Some(Response("get_behavioral_data", 200, None, 0, "",
                             get_all(repo_data), None, None, None))
    /\ UNCHANGED <<repo_data, next_id, adds, retired, riskVars, emoVars, clientVars,
                 threadVars, dashVars, scorerVars, callerVars>>

\* GET /data/latest?n=...: repository.get_latest(n)
GetLatestData ==
    /\ \E n \in LatestCounts :
           resp' = Some(Response("get_latest_data", 200, None, n, "",
                                 get_latest(repo_data, n), None, None, None))
    /\ UNCHANGED <<repo_data, next_id, adds, retired, riskVars, emoVars, clientVars,
                 threadVars, dashVars, scorerVars, callerVars>>

\* The rest of predict_mental_health_risk once data is known
PredictionFor(request, data, t) ==
    LET p == [risk_score |-> Round2(t.risk_score), risk_level |-> t.risk_level,
              intervention_suggestion |-> t.suggestion]
    IN  IF AppRiskPredictionValid(p)
        THEN Response("predict_mental_health_risk", 200, request, 0, "", <<>>,
                      Some(data), Some(t), Some(p))
        ELSE Response("predict_mental_health_risk", 500, request, 0, "", <<>>,
                      Some(data), Some(t), None)

\* POST /predict without a body: the latest stored entry, or 400
PredictFromStore ==
    /\ LET latest == get_latest(repo_data, 1)
       IN  IF latest = <<>>
           THEN resp' = Some(Response("predict_mental_health_risk", 400, None, 0,
                                      "No data available. Please submit behavioral data first.",
                                      <<>>, None, None, None))
           ELSE \E t \in predict_risk(latest[1]) :
                    resp' = Some(PredictionFor(None, latest[1], t))
    /\ UNCHANGED <<repo_data, next_id, adds, retired, riskVars, emoVars, clientVars,
                 threadVars, dashVars, scorerVars, callerVars>>

\* POST /predict with a body the BehavioralData model rejects
RejectPredict ==
    /\ \E b \in PredictBodies :
           /\ ~ValidBehavioralData(b)
           /\ resp' = Some(Response("predict_mental_health_risk", 422, Some(b), 0,
                                    "validation error", <<>>, None, None, None))
    /\ UNCHANGED <<repo_data, next_id, adds, retired, riskVars, emoVars, clientVars,
                 threadVars, dashVars, scorerVars, callerVars>>

\* POST /predict with a body
PredictFromBody ==
    /\ \E b \in PredictBodies :
           /\ ValidBehavioralData(b)
           /\ \E t \in predict_risk(b) : resp' = Some(PredictionFor(Some(b), b, t))
    /\ UNCHANGED <<repo_data, next_id, adds, retired, riskVars, emoVars, clientVars,
                 threadVars, dashVars, scorerVars, callerVars>>

\* repository.get_by_id(entry_id)
GetById ==
    /\ \E entry_id \in EntryIds :
           resp' = Some(Response("get_by_id", 0, None, entry_id, "",
                                 get_by_id(repo_data, entry_id), None, None, None))
    /\ UNCHANGED <<repo_data, next_id, adds, retired, riskVars, emoVars, clientVars,
                 threadVars, dashVars, scorerVars, callerVars>>

\* repository.clear()
Clear ==
    /\ LET r == repository_clear(next_id)
       IN  /\ repo_data' = r.data
           /\ next_id' = r.next_id
    /\ adds' = 0
    /\ retired' = retired \cup {repo_data[i].id : i \in 1..Len(repo_data)}
    /\ resp' = Some(Response("clear", 0, None, 0, "", <<>>, None, None, None))
    /\ UNCHANGED <<riskVars, emoVars, clientVars,
                 threadVars, dashVars, scorerVars, callerVars>>

NextStore ==
    \/ RejectBehavioralData
    \/ AddBehavioralData
    \/ GetBehavioralData
    \/ GetLatestData
    \/ PredictFromStore
    \/ RejectPredict
    \/ PredictFromBody
    \/ GetById
    \/ Clear

SpecStore == InitStore /\ [][NextStore]_vars

-----------------------------------------------------------------------------
(* The API client of the dashboard: frontend/app/api_client.py *)

\* The body of an HTTP response: no JSON, a JSON array, or a JSON object
\* with some keys; of the values only that of "status" matters to the client.
NotJson == [kind |-> "not_json", fields |-> {}, status |-> ""]
JsonArray == [kind |-> "array", fields |-> {}, status |-> ""]
JsonObject(fields, status) == [kind |-> "object", fields |-> fields, status |-> status]
PredictionKeys == {"risk_score", "risk_level", "intervention_suggestion"}
ResponseBodies ==
    {NotJson, JsonArray, JsonObject({}, ""), JsonObject({"status"}, "ok"),
     JsonObject({"status"}, "down"), JsonObject({"detail"}, ""),
     JsonObject(PredictionKeys, ""), JsonObject({"risk_score"}, ""),
     JsonObject({"id", "sleep_hours", "mood_score", "messages_sent", "steps",
                 "app_usage_hours", "timestamp"}, "")}

\* What requests.get / requests.post does: raises a RequestException, or
\* returns a response with a status code and a body.
TransportErrors == {"ConnectionError", "Timeout"}
StatusCodes == {200, 201, 400, 422, 500}
TransportOutcomes ==
    {[kind |-> "raises", exc |-> x, status_code |-> 0, body |-> NotJson] : x \in TransportErrors}
    \cup {[kind |-> "response", exc |-> "", status_code |-> c, body |-> b] :
              c \in StatusCodes, b \in ResponseBodies}

\* The installed requests: since 2.27 response.json() raises
\* requests.JSONDecodeError, a RequestException; before, a ValueError.
Libraries == {"requests>=2.27", "requests<2.27"}

\* What a client operation returns or raises.
ClientRaised(x) == [kind |-> "raised", exc |-> x, bool |-> FALSE, body |-> NotJson]
ClientBool(b) == [kind |-> "bool", exc |-> "", bool |-> b, body |-> NotJson]
ClientNone == [kind |-> "none", exc |-> "", bool |-> FALSE, body |-> NotJson]
ClientEmptyList == [kind |-> "empty_list", exc |-> "", bool |-> FALSE, body |-> NotJson]
ClientJson(b) == [kind |-> "json", exc |-> "", bool |-> FALSE, body |-> b]
ClientPrediction(b) == [kind |-> "prediction", exc |-> "", bool |-> FALSE, body |-> b]

\* Mutant: a status check that never raises.
raise_for_status_never(status_code) == ""

\* response.raise_for_status(): HTTPError for a 4xx or 5xx status
raise_for_status(status_code) ==
    IF 400 <= status_code /\ status_code < 600 THEN "HTTPError" ELSE ""

\* response.json()
response_json(lib, body) ==
    IF body.kind = "not_json"
    THEN ClientRaised(IF lib = "requests>=2.27" THEN "requests.JSONDecodeError"
                      ELSE "ValueError")
    ELSE ClientJson(body)

\* except requests.RequestException
IsRequestException(x) ==
    x \in TransportErrors \cup {"HTTPError", "requests.JSONDecodeError"}
Except(r, failure) == IF r.kind = "raised" /\ IsRequestException(r.exc) THEN failure ELSE r

\* health_check()
health_check(lib, o) ==
    Except(IF o.kind = "raises" THEN ClientRaised(o.exc)
           ELSE IF o.status_code # 200 THEN ClientBool(FALSE)
           ELSE LET j == response_json(lib, o.body)
                IN  IF j.kind = "raised" THEN j
                    ELSE IF j.body.kind = "array" THEN ClientRaised("AttributeError")
                    ELSE ClientBool("status" \in j.body.fields /\ j.body.status = "ok"),
           ClientBool(FALSE))

\* The try block shared by submit_data, get_all_data and get_latest_data:
\* the request, raise_for_status(), return response.json()
RequestJson(lib, o) ==
    IF o.kind = "raises" THEN ClientRaised(o.exc)
    ELSE IF raise_for_status(o.status_code) # ""
    THEN ClientRaised(raise_for_status(o.status_code))
    ELSE response_json(lib, o.body)

submit_data(lib, o) == Except(RequestJson(lib, o), ClientNone)
get_all_data(lib, o) == Except(RequestJson(lib, o), ClientEmptyList)
get_latest_data(lib, o) == Except(RequestJson(lib, o), ClientEmptyList)

\* predict_risk(data): RiskPrediction(risk_score=result["risk_score"], ...)
api_predict_risk(lib, o) ==
    LET j == RequestJson(lib, o)
    IN  Except(IF j.kind = "raised" THEN j
               ELSE IF j.body.kind = "array" THEN ClientRaised("TypeError")
               ELSE IF ~(PredictionKeys \subseteq j.body.fields) THEN ClientRaised("KeyError")
               ELSE ClientPrediction(j.body),
               ClientNone)

ApiCall(op, with_data, n, lib, o) ==
    [op |-> op, with_data |-> with_data, n |-> n, lib |-> lib, outcome |-> o]

InitClient ==
    /\ CallerIdle
    /\ ThreadsIdle
    /\ DashIdle
    /\ ScorersIdle
    /\ RiskIdle
    /\ EmotionIdle
    /\ StoreIdle
    /\ call = None
    /\ ret = None

ClientHealthCheck ==
    /\ \E lib \in Libraries, o \in TransportOutcomes :
           /\ call' = Some(ApiCall("health_check", FALSE, 0, lib, o))
           /\ ret' = Some(health_check(lib, o))
    /\ UNCHANGED <<riskVars, emoVars, storeVars,
                 threadVars, dashVars, scorerVars, callerVars>>

ClientSubmitData ==
    /\ \E lib \in Libraries, o \in TransportOutcomes :
           /\ call' = Some(ApiCall("submit_data", TRUE, 0, lib, o))
           /\ ret' = Some(submit_data(lib, o))
    /\ UNCHANGED <<riskVars, emoVars, storeVars,
                 threadVars, dashVars, scorerVars, callerVars>>

ClientGetAllData ==
    /\ \E lib \in Libraries, o \in TransportOutcomes :
           /\ call' = Some(ApiCall("get_all_data", FALSE, 0, lib, o))
           /\ ret' = Some(get_all_data(lib, o))
    /\ UNCHANGED <<riskVars, emoVars, storeVars,
                 threadVars, dashVars, scorerVars, callerVars>>

ClientGetLatestData ==
    /\ \E lib \in Libraries, o \in TransportOutcomes, n \in {2, 7} :
           /\ call' = Some(ApiCall("get_latest_data", FALSE, n, lib, o))
           /\ ret' = Some(get_latest_data(lib, o))
    /\ UNCHANGED <<riskVars, emoVars, storeVars,
                 threadVars, dashVars, scorerVars, callerVars>>

\* predict_risk(data) and predict_risk(): the same handling of the response
ClientPredictRisk ==
    /\ \E lib \in Libraries, o \in TransportOutcomes, with_data \in BOOLEAN :
           /\ call' = Some(ApiCall("predict_risk", with_data, 0, lib, o))
           /\ ret' = Some(api_predict_risk(lib, o))
    /\ UNCHANGED <<riskVars, emoVars, storeVars,
                 threadVars, dashVars, scorerVars, callerVars>>

NextClient ==
    \/ ClientHealthCheck
    \/ ClientSubmitData
    \/ ClientGetAllData
    \/ ClientGetLatestData
    \/ ClientPredictRisk

SpecClient == InitClient /\ [][NextClient]_vars

-----------------------------------------------------------------------------
(* Concurrent requests on the shared repository.  add_behavioral_data is a
   plain (non-async) endpoint, so FastAPI runs each request on a thread of
   its pool, and repository.add takes no lock: the threads interleave
   between the read of _next_id that builds the entry, the append, and the
   load and the store of  self._next_id += 1. *)

NumThreads == 2
MaxRequests == 3

Threads == 1..NumThreads

ThreadIdle == [pc |-> "idle", body |-> SampleDay, entry |-> None, loaded |-> 0]

InFlight == Cardinality({t \in DOMAIN threads : threads[t].pc \in {"build", "append"}})

InitConcurrent ==
    /\ CallerIdle
    /\ RiskIdle
    /\ EmotionIdle
    /\ StoreIdle
    /\ ClientIdle
    /\ DashIdle
    /\ ScorersIdle
    /\ threads = [t \in Threads |-> ThreadIdle]

\* POST /data with a valid body is handed to a free thread of the pool, which
\* enters repository.add(data).
ThreadCall(t) ==
    /\ threads[t].pc = "idle"
    /\ Len(repo_data) + InFlight < MaxRequests
    /\ \E b \in InDomain :
           /\ ValidBehavioralData(b)
           /\ threads' = [threads EXCEPT ![t] = [ThreadIdle EXCEPT !.pc = "build",
                                                                  !.body = b]]
    /\ UNCHANGED <<riskVars, emoVars, storeVars, clientVars, dashVars, scorerVars, callerVars>>

\* entry = BehavioralDataResponse(id=self._next_id, ...)
ThreadBuildEntry(t) ==
    /\ threads[t].pc = "build"
    /\ threads' = [threads EXCEPT
                       ![t].pc = "append",
                       ![t].entry = Some(BehavioralDataResponse(next_id, threads[t].body))]
    /\ UNCHANGED <<riskVars, emoVars, storeVars, clientVars, dashVars, scorerVars, callerVars>>

\* self._data.append(entry)
ThreadAppend(t) ==
    /\ threads[t].pc = "append"
    /\ repo_data' = Append(repo_data, threads[t].entry[1])
    /\ adds' = adds + 1
    /\ threads' = [threads EXCEPT ![t].pc = "load"]
    /\ UNCHANGED <<next_id, retired, resp, riskVars, emoVars, clientVars, dashVars,
                 scorerVars, callerVars>>

\* self._next_id += 1, first half: the value of the counter is loaded
ThreadLoadCounter(t) ==
    /\ threads[t].pc = "load"
    /\ threads' = [threads EXCEPT ![t].pc = "store", ![t].loaded = next_id]
    /\ UNCHANGED <<riskVars, emoVars, storeVars, clientVars, dashVars, scorerVars, callerVars>>

\* self._next_id += 1, second half: the sum is stored; then return entry, which
\* the endpoint answers with.
ThreadStoreCounter(t) ==
    /\ threads[t].pc = "store"
    /\ next_id' = threads[t].loaded + 1
    /\ resp' = Some(Response("add_behavioral_data", 200, Some(threads[t].body), 0, "",
                             threads[t].entry, None, None, None))
    /\ threads' = [threads EXCEPT ![t] = ThreadIdle]
    /\ UNCHANGED <<repo_data, adds, retired, riskVars, emoVars, clientVars, dashVars,
                 scorerVars, callerVars>>

NextConcurrent ==
    \E t \in Threads :
        \/ ThreadCall(t)
        \/ ThreadBuildEntry(t)
        \/ ThreadAppend(t)
        \/ ThreadLoadCounter(t)
        \/ ThreadStoreCounter(t)

SpecConcurrent == InitConcurrent /\ [][NextConcurrent]_vars

-----------------------------------------------------------------------------
(* The integrated scorer: src/app.py *)

\* Mutant: the low-mood tier taken below 3 instead of up to 3.
app_calculate_risk_score_mood_below_three(m) ==
    Clamp01((IF m.sleep_hours < 4 * HourUnit THEN 3000
             ELSE IF m.sleep_hours < 6 * HourUnit THEN 1500 ELSE 0)
          + (IF m.mood_score < 3 THEN 4000
             ELSE IF m.mood_score <= 5 THEN 2000 ELSE 0)
          + (IF m.messages_sent < 5 THEN 2000
             ELSE IF m.messages_sent < 10 THEN 1000 ELSE 0)
          + (IF m.app_usage_hours > 8 * HourUnit THEN 1000
             ELSE IF m.app_usage_hours > 6 * HourUnit THEN 500 ELSE 0)
          + (IF m.steps < 1000 THEN 1000
             ELSE IF m.steps < 3000 THEN 500 ELSE 0))

\* calculate_risk_score(data) of src/app.py: the five factors are added in
\* the order sleep, mood, social activity, screen time, movement, and the sum
\* is clamped.
app_calculate_risk_score(m) ==
    LET sleep    == IF m.sleep_hours < 4 * HourUnit THEN 3000
                    ELSE IF m.sleep_hours < 6 * HourUnit THEN 1500 ELSE 0
        mood     == IF m.mood_score <= 3 THEN 4000
                    ELSE IF m.mood_score <= 5 THEN 2000 ELSE 0
        social   == IF m.messages_sent < 5 THEN 2000
                    ELSE IF m.messages_sent < 10 THEN 1000 ELSE 0
        screen   == IF m.app_usage_hours > 8 * HourUnit THEN 1000
                    ELSE IF m.app_usage_hours > 6 * HourUnit THEN 500 ELSE 0
        movement == IF m.steps < 1000 THEN 1000
                    ELSE IF m.steps < 3000 THEN 500 ELSE 0
    IN  Min(Max(sleep + mood + social + screen + movement, 0), Unit)

\* get_risk_level(risk_score) of src/app.py
app_get_risk_level(risk_score) ==
    IF risk_score < 3000 THEN "low"
    ELSE IF risk_score < 6000 THEN "medium"
    ELSE "high"

-----------------------------------------------------------------------------
(* Scorer specification: one well-formed input given to the three scorers *)

\* Each metric on both sides of every tier boundary of the three scorers.
ScorerInputs ==
    [sleep_hours     : {3 * HourUnit, 5 * HourUnit, 8 * HourUnit},
     mood_score      : {3, 5, 8},
     messages_sent   : {0, 7, MaxMessages},
     steps           : {500, 2000, MaxSteps},
     app_usage_hours : {2 * HourUnit, 7 * HourUnit, 9 * HourUnit}]

\* The level strings get_intervention_suggestion is called with: the three
\* levels, and strings that are none of them.
LevelInputs == {"low", "medium", "high", "unknown", "HIGH", ""}

InitScorers ==
    /\ CallerIdle
    /\ EmotionIdle
    /\ StoreIdle
    /\ ClientIdle
    /\ ThreadsIdle
    /\ DashIdle
    /\ metrics \in ScorerInputs
    /\ canon = None
    /\ canonPrev = None
    /\ canonResp = None
    /\ simple = None
    /\ integrated = None
    /\ suggested = None

\* calculate_risk_score(data) and get_risk_level(score) of src/app.py
IntegratedScore ==
    /\ LET risk_score == app_calculate_risk_score(metrics)
       IN  integrated' = Some([risk_score |-> risk_score,
                               risk_level |-> app_get_risk_level(risk_score)])
    /\ UNCHANGED <<riskVars, emoVars, storeVars, clientVars, threadVars, dashVars,
                 suggested, callerVars>>

\* get_intervention_suggestion(risk_level) of backend/app/risk_calculator.py,
\* called on its own
SuggestIntervention ==
    /\ \E risk_level \in LevelInputs :
           \E suggestion \in get_intervention_suggestion(risk_level) :
               suggested' = Some([risk_level |-> risk_level, suggestion |-> suggestion])
    /\ UNCHANGED <<riskVars, emoVars, storeVars, clientVars, threadVars, dashVars,
                 integrated, callerVars>>

NextScorers ==
    \/ CanonicalPredict
    \/ SimplePredict
    \/ IntegratedScore

SpecScorers == InitScorers /\ [][NextScorers]_vars

-----------------------------------------------------------------------------
(* Suggestion specification: predict_risk of the simpler engine on one
   well-formed input, and get_intervention_suggestion called with any level
   string *)

NextSuggestions ==
    \/ SimplePredict
    \/ SuggestIntervention

SpecSuggestions == InitScorers /\ [][NextSuggestions]_vars

-----------------------------------------------------------------------------
(* The prediction call of the dashboard: frontend/app.py *)

\* The form data of the dashboard: a day with every metric in its worst
\* tier, and a day with none.
DashInputs ==
    {[sleep_hours |-> 3 * HourUnit, mood_score |-> 2, messages_sent |-> 0,
      steps |-> 500, app_usage_hours |-> 9 * HourUnit],
     [sleep_hours |-> 8 * HourUnit, mood_score |-> 8, messages_sent |-> MaxMessages,
      steps |-> MaxSteps, app_usage_hours |-> 2 * HourUnit]}

LocalKeys == {"risk_score", "risk_level", "suggestion", "color"}

\* a, b, c, d = values: ValueError unless there are exactly four values.
UnpackFour(values) ==
    IF Len(values) = 4
    THEN [kind |-> "local", exc |-> "", bool |-> FALSE, body |-> JsonObject(LocalKeys, "")]
    ELSE ClientRaised("ValueError")

\* The handler of RequestException: import the canonical engine (src/ has to
\* be on the module path), call it, unpack what it returns into four names
\* and build the result.
LocalFallback(data, importable) ==
    IF ~importable THEN ClientRaised("ModuleNotFoundError")
    ELSE LET r == calculate_risk_score(data)
         IN  UnpackFour(<<r.risk_score, r.risk_level, r.suggestion, r.color, r.drivers,
                          r.recommended_actions>>)

\* predict_risk(data) of frontend/app.py
dashboard_predict_risk(data, lib, o, importable) ==
    IF o.kind = "raises" THEN LocalFallback(data, importable)
    ELSE IF o.status_code = 200
    THEN LET j == response_json(lib, o.body)
         IN  IF j.kind = "raised" /\ IsRequestException(j.exc)
             THEN LocalFallback(data, importable)
             ELSE j
    ELSE ClientNone

InitDashboard ==
    /\ CallerIdle
    /\ RiskIdle
    /\ EmotionIdle
    /\ StoreIdle
    /\ ClientIdle
    /\ ThreadsIdle
    /\ ScorersIdle
    /\ dash = None

\* The form is submitted: predict_risk(data) with the API in any state
DashboardPredictRisk ==
    /\ \E data \in DashInputs, lib \in Libraries, o \in TransportOutcomes,
          importable \in BOOLEAN :
           dash' = Some([data |-> data, lib |-> lib, outcome |-> o,
                         importable |-> importable,
                         result |-> dashboard_predict_risk(data, lib, o, importable)])
    /\ UNCHANGED <<riskVars, emoVars, storeVars, clientVars, threadVars, scorerVars, callerVars>>

NextDashboard == DashboardPredictRisk

SpecDashboard == InitDashboard /\ [][NextDashboard]_vars

-----------------------------------------------------------------------------
(* Direct callers of the repository: the lists get_all and get_latest hand
   out are Python objects the caller can change *)

\* Which list object a call returns: the repository's own list self._data,
\* or a list made by the call.
OwnList == "self._data"
NewList == "a new list"

\* Mutant: return self._data
get_all_list_own == OwnList

\* get_all(): self._data.copy() makes a list
get_all_list == NewList

\* get_latest(n): the slice self._data[-n:] makes a list, and so does the
\* literal [] returned for an empty store
get_latest_list(d) == IF d # <<>> THEN NewList ELSE NewList

\* What a caller does to a list it was given: list.append(x), with x an entry
\* that was never stored, or list.pop()
ListChanges == {"append", "pop"}
ChangeList(items, change) ==
    IF change = "append" THEN Append(items, BehavioralDataResponse(0, SampleDay))
    ELSE SubSeq(items, 1, Len(items) - 1)

\* entries = repository.get_all()
RepoGetAll ==
    /\ held' = Some([op |-> "get_all", items |-> get_all(repo_data),
                     list |-> get_all_list, mutated |-> FALSE])
    /\ UNCHANGED <<riskVars, emoVars, storeVars, clientVars, threadVars, dashVars,
                 scorerVars>>

\* entries = repository.get_latest(n)
RepoGetLatest ==
    /\ \E n \in LatestCounts :
           held' = Some([op |-> "get_latest", items |-> get_latest(repo_data, n),
                         list |-> get_latest_list(repo_data), mutated |-> FALSE])
    /\ UNCHANGED <<riskVars, emoVars, storeVars, clientVars, threadVars, dashVars,
                 scorerVars>>

\* The caller appends to the list it holds or pops from it, once; the store
\* changes with it when that list is the repository's own.
MutateReturnedList ==
    /\ held # None
    /\ ~held[1].mutated
    /\ \E change \in ListChanges :
           /\ change = "pop" => held[1].items # <<>>
           /\ IF held[1].list = OwnList
              THEN /\ change = "pop" => repo_data # <<>>
                   /\ repo_data' = ChangeList(repo_data, change)
                   /\ held' = Some([held[1] EXCEPT !.items = ChangeList(repo_data, change),
                                                   !.mutated = TRUE])
              ELSE /\ repo_data' = repo_data
                   /\ held' = Some([held[1] EXCEPT !.items = ChangeList(held[1].items, change),
                                                   !.mutated = TRUE])
    /\ UNCHANGED <<next_id, adds, retired, resp, riskVars, emoVars, clientVars,
                 threadVars, dashVars, scorerVars>>

NextRepository ==
    \/ AddBehavioralData
    \/ GetById
    \/ Clear
    \/ RepoGetAll
    \/ RepoGetLatest
    \/ MutateReturnedList

SpecRepository == InitStore /\ [][NextRepository]_vars

-----------------------------------------------------------------------------
(* Properties of the risk engines *)

WorstCase ==
    [sleep_hours |-> 0, mood_score |-> 1, messages_sent |-> 0, steps |-> 0,
     app_usage_hours |-> HoursMax * HourUnit]
BalancedDay ==
    [sleep_hours |-> 8 * HourUnit, mood_score |-> 8, messages_sent |-> 20, steps |-> 8000,
     app_usage_hours |-> 2 * HourUnit]

\* C1: for every well-formed input the risk score returned by
\* calculate_risk_score lies in [0, 1], in the canonical engine and in the
\* simpler engine.
C1_ScoreInUnitInterval ==
    WellFormed(metrics) =>
        /\ canon # None => 0 <= canon[1].risk_score /\ canon[1].risk_score <= Unit
        /\ simple # None => 0 <= simple[1].risk_score /\ simple[1].risk_score <= Unit

\* The worst-case input, whose raw sum exceeds 1.0, evaluated by both engines.
C1_Witness ==
    /\ metrics = WorstCase
    /\ canon # None /\ canon[1].risk_score = Unit
    /\ simple # None /\ simple[1].risk_score = Unit

\* The inputs that differ from m in exactly one field, in the adverse
\* direction: less sleep, lower mood, fewer messages, fewer steps, more usage.
Adverse(m) ==
    {[m EXCEPT !.sleep_hours = v] : v \in {x \in SleepVals : x < m.sleep_hours}}
    \cup {[m EXCEPT !.mood_score = v] : v \in {x \in MoodVals : x < m.mood_score}}
    \cup {[m EXCEPT !.messages_sent = v] : v \in {x \in MessageVals : x < m.messages_sent}}
    \cup {[m EXCEPT !.steps = v] : v \in {x \in StepVals : x < m.steps}}
    \cup {[m EXCEPT !.app_usage_hours = v] : v \in {x \in UsageVals : x > m.app_usage_hours}}

\* C2: the risk score is monotone in each input taken alone: an input that
\* differs in one field in the adverse direction never scores lower, in
\* either engine.
C2_MonotoneInEachInput ==
    /\ canon # None =>
           \A w \in Adverse(metrics) : calculate_risk_score(w).risk_score >= canon[1].risk_score
    /\ simple # None =>
           \A w \in Adverse(metrics) : simple_calculate_risk_score(w) >= simple[1].risk_score

\* An evaluated input with a strictly riskier neighbour in both engines.
C2_Witness ==
    /\ canon # None /\ simple # None
    /\ \E w \in Adverse(metrics) : calculate_risk_score(w).risk_score > canon[1].risk_score
    /\ \E w \in Adverse(metrics) : simple_calculate_risk_score(w) > simple[1].risk_score

\* The rule table of the canonical engine as the specification states it,
\* one contribution per factor.
TableSum(m) ==
    (IF m.sleep_hours < 4 * HourUnit THEN 3000
     ELSE IF m.sleep_hours < 6 * HourUnit THEN 1500 ELSE 0)
    + (IF m.mood_score <= 3 THEN 4000 ELSE IF m.mood_score <= 5 THEN 2000 ELSE 0)
    + (IF m.messages_sent < 3 THEN 1500 ELSE 0)
    + (IF m.steps < 1000 THEN 1000 ELSE 0)
    + (IF m.app_usage_hours > 6 * HourUnit THEN 1000 ELSE 0)

\* C3: the canonical score is min(1.0, sum of the deltas of the rules that
\* fire), each of the five factors contributing at most once; the worst-case
\* input has a raw sum above 1.0, score exactly 1.0 and level high.
C3_ScoreIsCappedSum ==
    canon # None =>
        /\ canon[1].risk_score = Min(Unit, TableSum(metrics))
        /\ Len(canon[1].drivers) <= 5
        /\ metrics = WorstCase =>
               /\ FlagAll(metrics).risk > Unit
               /\ canon[1].risk_score = Unit
               /\ canon[1].risk_level = "high"

C3_Witness == canon # None /\ metrics = WorstCase /\ Len(canon[1].drivers) = 5

LevelOfScore(score) ==
    IF score >= 7000 THEN "high" ELSE IF score >= 4000 THEN "medium" ELSE "low"

\* C4: the canonical level is a function of the score alone: score >= 0.70
\* is high, 0.40 <= score < 0.70 is medium, score < 0.40 is low, and the
\* level returned agrees with the score returned alongside it.
C4_LevelFollowsScore ==
    canon # None => canon[1].risk_level = LevelOfScore(canon[1].risk_score)

\* A score of exactly 0.70, classified high.
C4_Witness == canon # None /\ canon[1].risk_score = 7000 /\ canon[1].risk_level = "high"

HeadlineOf(level) ==
    CASE level = "high" ->
           "Please consider reaching out to a trusted friend or counselor today. Your wellbeing matters."
      [] level = "medium" ->
           "Try a short walk or a quick breathing exercise. Small steps make a difference."
      [] level = "low" -> "You're doing great! Keep up the healthy habits."
ColorOf(level) ==
    CASE level = "high" -> "#FF6B6B"
      [] level = "medium" -> "#FFE66D"
      [] level = "low" -> "#4ECDC4"

NoRuleFires(m) ==
    /\ m.sleep_hours >= 6 * HourUnit
    /\ m.mood_score > 5
    /\ m.messages_sent >= 3
    /\ m.steps >= 1000
    /\ m.app_usage_hours <= 6 * HourUnit

\* C6: drivers and recommended_actions are never empty; they are the two
\* sentinels exactly when no rule fired, and then the score is 0.0 and the
\* level low.
C6_SentinelsIffNoRule ==
    canon # None =>
        /\ canon[1].drivers # <<>>
        /\ canon[1].recommended_actions # <<>>
        /\ (canon[1].drivers = <<BalancedDriver>>) <=> NoRuleFires(metrics)
        /\ (canon[1].recommended_actions = <<BalancedAction>>) <=> NoRuleFires(metrics)
        /\ NoRuleFires(metrics) => canon[1].risk_score = 0 /\ canon[1].risk_level = "low"

\* The no-signal example of the specification.
C6_Witness ==
    /\ metrics = BalancedDay
    /\ canon # None
    /\ canon[1].drivers = <<BalancedDriver>>
    /\ canon[1].risk_score = 0

\* The rules in the order sleep, mood, messaging, movement, screen time:
\* the driver each reports and the action it recommends.
RuleOrder ==
    << <<"Severely low sleep (+0.30)", "Block 30 minutes for deep rest tonight">>,
       <<"Not enough restorative sleep (+0.15)",
         "Wind down 30 minutes earlier to aim for 6+ hours">>,
       <<"Mood is critically low (+0.40)",
         "Reach out to someone you trust and share how you feel">>,
       <<"Mood trending downward (+0.20)",
         "Do a short grounding exercise or journaling session">>,
       <<"Limited social touchpoints (+0.15)", "Send a quick check-in message to a friend">>,
       <<"Low movement (+0.10)", "Take a 5-minute walk or stretch break">>,
       <<"Heavy screen time (+0.10)", "Try a mini digital detox for one hour">> >>
RuleOf(driver) ==
    IF \E k \in 1..Len(RuleOrder) : RuleOrder[k][1] = driver
    THEN CHOOSE k \in 1..Len(RuleOrder) : RuleOrder[k][1] = driver
    ELSE 0

\* C21: when a rule fires, recommended_actions is as long as drivers, the
\* i-th action is that of the rule behind the i-th driver, and the drivers
\* come in the order sleep, mood, messaging, movement, screen time.
C21_ActionsMatchDrivers ==
    (canon # None /\ ~NoRuleFires(metrics)) =>
        LET d == canon[1].drivers
            a == canon[1].recommended_actions
        IN  /\ Len(a) = Len(d)
            /\ \A i \in 1..Len(d) :
                   /\ RuleOf(d[i]) # 0
                   /\ a[i] = RuleOrder[RuleOf(d[i])][2]
            /\ \A i, j \in 1..Len(d) : i < j => RuleOf(d[i]) < RuleOf(d[j])

\* Short sleep, low mood and heavy screen time together: three drivers and
\* their three actions, in that order.
C21_Witness ==
    /\ canon # None
    /\ Len(canon[1].drivers) = 3
    /\ canon[1].drivers[1] = "Not enough restorative sleep (+0.15)"
    /\ canon[1].drivers[3] = "Heavy screen time (+0.10)"
    /\ canon[1].recommended_actions =
           <<"Wind down 30 minutes earlier to aim for 6+ hours",
             "Do a short grounding exercise or journaling session",
             "Try a mini digital detox for one hour">>

-----------------------------------------------------------------------------
(* Properties of the emotion engine *)

\* The remote path failed at some step: the call raised, the response had no
\* output, its text was not JSON, the JSON was not an object, or the
\* confidence was not a number.
NonNumeric == {JString("high"), JNull}
RemoteFailed(o) ==
    \/ o.kind \in {"raises", "no_output", "not_json", "json_array"}
    \/ o.kind = "json_object" /\ o.payload.confidence # None
           /\ o.payload.confidence[1] \in NonNumeric

C8_ConfidenceInUnitInterval ==
    (emo # None /\ emo[1].ok) =>
        /\ FracLeq(Frac(0, 1), emo[1].value.confidence)
        /\ FracLeq(emo[1].value.confidence, Frac(1, 1))
        /\ analysis[1].status = 200

\* C9: supporting_emotions never contains primary_emotion.
C9_SupportingExcludesPrimary ==
    (emo # None /\ emo[1].ok) =>
        \A i \in 1..Len(emo[1].value.supporting_emotions) :
            emo[1].value.supporting_emotions[i] # emo[1].value.primary_emotion

\* The remote call succeeded and returned a JSON object.
RemoteGaveObject == remote # None /\ remote[1].kind = "json_object"

\* The field of the result for a key of the object: the default when the
\* key is absent, the object's value when present.
FieldOr(field, default) == IF field = None THEN default ELSE field[1]
ConfidenceExpected(field) ==
    IF field = None THEN Frac(65, 100)
    ELSE IF field[1] = JString("0.8") THEN Frac(4, 5)
    ELSE field[1].num
TextFieldsFromObject(p, r) ==
    /\ r.primary_emotion = FieldOr(p.primary_emotion, "calm")
    /\ r.supporting_emotions = FieldOr(p.supporting_emotions, <<>>)
    /\ r.stress_level = FieldOr(p.stress_level, "low")
    /\ r.summary =
           FieldOr(p.summary, "You appear balanced with no alarming emotional spikes.")
    /\ r.recommendation =
           FieldOr(p.recommendation,
                   "Keep reflecting on your feelings and share them with a friend.")

\* C10 as stated: whenever the remote call returns a JSON object, absent
\* fields get their defaults, present fields are taken from the object, and
\* the heuristic fallback is not run.
C10_ObjectAlwaysUsed ==
    RemoteGaveObject =>
        /\ calls.fallback = 0
        /\ emo[1].ok
        /\ TextFieldsFromObject(remote[1].payload, emo[1].value)

\* C10, amended: when the object's confidence is absent or a value float()
\* accepts, absent fields get their defaults, present fields are taken from
\* the object (confidence as float() converts it) and the fallback is not
\* run; when float() rejects the confidence, the result is the fallback's.
C10_ObjectUsedWhenConfidenceNumeric ==
    RemoteGaveObject =>
        IF RemoteFailed(remote[1])
        THEN calls.fallback = 1 /\ emo[1].ok /\ emo[1].value = HeuristicResult[text]
        ELSE /\ calls.fallback = 0
             /\ emo[1].ok
             /\ TextFieldsFromObject(remote[1].payload, emo[1].value)
             /\ emo[1].value.confidence = ConfidenceExpected(remote[1].payload.confidence)

\* An object with only a confidence, given as a numeric string: the other
\* five fields are the defaults.
C10_Witness ==
    /\ RemoteGaveObject
    /\ remote[1].payload = [EmptyPayload EXCEPT !.confidence = Some(JString("0.8"))]
    /\ emo[1].ok
    /\ emo[1].value.confidence = Frac(4, 5)
    /\ emo[1].value.primary_emotion = "calm"
    /\ calls.fallback = 0

-----------------------------------------------------------------------------
(* Properties of the heuristic fallback *)

\* A remote answer that leaves out a key, or whose confidence is not a number
\* in [0, 1].
MissingField(p) ==
    \/ p.primary_emotion = None \/ p.confidence = None \/ p.supporting_emotions = None
    \/ p.stress_level = None \/ p.summary = None \/ p.recommendation = None
MalformedField(p) ==
    /\ p.confidence # None
    /\ \/ p.confidence[1] \in NonNumeric
       \/ p.confidence[1].t = "number"
              /\ \/ FracLess(p.confidence[1].num, Frac(0, 1))
                 \/ FracLess(Frac(1, 1), p.confidence[1].num)

\* C11: a missing or malformed field in the remote response, a transport
\* error, a non-2xx status or a parse failure all count as "remote
\* unavailable": the result is the heuristic fallback's and nothing is
\* propagated to the caller of /analyze-text.
C11_UnusableAnswerFallsBack ==
    (remote # None /\ (\/ remote[1].kind # "json_object"
                       \/ MissingField(remote[1].payload)
                       \/ MalformedField(remote[1].payload))) =>
        /\ emo[1].ok
        /\ emo[1].value = HeuristicResult[text]
        /\ analysis[1].status = 200

\* The keyword tables as one list, negative table first, and what a text
\* matches of it: per label the number of its keywords that occur and the
\* place of the first one that occurs (0 when none does).
AllWords == NEGATIVE_WORDS \o POSITIVE_WORDS
Labels == {AllWords[i][2] : i \in 1..Len(AllWords)}
HitPlaces(label, lowered) ==
    {i \in 1..Len(AllWords) : AllWords[i][2] = label /\ Contains(lowered, AllWords[i][1])}
SignalWords == {"deadline", "pressure", "overwhelmed", "panic", "worry", "urgent"}
KeywordProfile ==
    [t \in Texts |->
        LET lowered == Lower(t)
        IN  [hits    |-> [lab \in Labels |-> Cardinality(HitPlaces(lab, lowered))],
             first   |-> [lab \in Labels |->
                             IF HitPlaces(lab, lowered) = {} THEN 0
                             ELSE CHOOSE i \in HitPlaces(lab, lowered) :
                                      \A j \in HitPlaces(lab, lowered) : i <= j],
             signals |-> Cardinality({w \in SignalWords : Contains(lowered, w)})]]
Matched(t) == {lab \in Labels : KeywordProfile[t].hits[lab] > 0}
Elements(seq) == {seq[i] : i \in 1..Len(seq)}
RECURSIVE SumOver(_, _)
SumOver(S, f) ==
    IF S = {} THEN 0 ELSE LET x == CHOOSE y \in S : TRUE IN f[x] + SumOver(S \ {x}, f)

\* C12: the fallback's primary emotion is the matched label of highest hit
\* count, the first inserted one among equals (negative table order, then
\* positive); the supporting emotions are exactly the other matched labels;
\* with no match the primary is "calm" and nothing supports it.  "I feel
\* grateful and calm today" gives gratitude or calm, the other one in
\* supporting, and low stress.
C12_PrimaryIsFirstMostFrequent ==
    (emo # None /\ calls.fallback = 1) =>
        LET r == emo[1].value
            prof == KeywordProfile[text]
            p == r.primary_emotion
        IN  /\ IF Matched(text) = {}
               THEN p = "calm" /\ r.supporting_emotions = <<>>
               ELSE /\ p \in Matched(text)
                    /\ \A q \in Matched(text) \ {p} :
                           \/ prof.hits[q] < prof.hits[p]
                           \/ prof.hits[q] = prof.hits[p] /\ prof.first[p] < prof.first[q]
                    /\ Elements(r.supporting_emotions) = Matched(text) \ {p}
                    /\ Len(r.supporting_emotions) = Cardinality(Matched(text)) - 1
            /\ text = "I feel grateful and calm today" =>
                   /\ p \in {"gratitude", "calm"}
                   /\ Elements(r.supporting_emotions) = {"gratitude", "calm"} \ {p}
                   /\ r.stress_level = "low"

\* A tie between a negative label met later in the text and a positive one
\* met earlier: the negative label, first inserted, is primary.
C12_Witness ==
    /\ text = "Grateful Anxious, urgent"
    /\ emo # None /\ calls.fallback = 1
    /\ emo[1].value.primary_emotion = "anxiety"
    /\ emo[1].value.supporting_emotions = <<"gratitude">>

\* C13: the fallback's stress level is decided by the number of distinct
\* stress signals in the text alone: two or more high, one medium, none low.
C13_StressFollowsSignalCount ==
    (emo # None /\ calls.fallback = 1) =>
        LET n == KeywordProfile[text].signals
        IN  emo[1].value.stress_level =
                IF n >= 2 THEN "high" ELSE IF n = 1 THEN "medium" ELSE "low"

\* Exactly two signals next to two sadness keywords: high.
C13_Witness ==
    /\ text = "SAD, depressed deadline pressure"
    /\ emo # None /\ calls.fallback = 1
    /\ emo[1].value.stress_level = "high"
    /\ emo[1].value.primary_emotion = "sadness"

-----------------------------------------------------------------------------
(* Properties of the entry store and the endpoints of backend/app *)

\* The last operation was a POST /data that stored its body.
AddAnswered == resp # None /\ resp[1].op = "add_behavioral_data" /\ resp[1].status = 200

\* C14: identifiers are positive and strictly increasing from 1: the k-th
\* add since construction or since the last clear returns identifier k, and
\* the counter never decreases except to 1, by a clear.
C14_IdsCountFromOne ==
    [][/\ (resp' # None /\ resp'[1].op = "add_behavioral_data" /\ resp'[1].status = 200) =>
              /\ resp'[1].entries[1].id = adds'
              /\ resp'[1].entries[1].id >= 1
       /\ \A i, j \in 1..Len(repo_data') : i < j => repo_data'[i].id < repo_data'[j].id
       /\ next_id' < next_id => (next_id' = 1 /\ resp'[1].op = "clear")
       /\ next_id' >= 1]_vars

\* The second add after a clear that followed two adds: identifier 2 again.
C14_Witness ==
    /\ AddAnswered
    /\ retired = {1, 2}
    /\ adds = 2
    /\ resp[1].entries[1].id = 2
    /\ next_id = 3

\* C15: no identifier is reused after a reset: an identifier add returned
\* before a clear is never returned by an add after that clear.
C15_NoReuseAfterClear ==
    AddAnswered => resp[1].entries[1].id \notin retired

\* C16: get_latest(n) returns the n most recently added entries, all of them
\* when fewer than n are stored and none when n is 0, oldest first.
C16_LatestReturnsNMostRecent ==
    (resp # None /\ resp[1].op = "get_latest_data" /\ resp[1].n >= 0) =>
        LET k == Min(resp[1].n, Len(repo_data))
        IN  resp[1].entries = SubSeq(repo_data, Len(repo_data) - k + 1, Len(repo_data))

\* The level the simpler engine's thresholds give a score.
SimpleLevelOf(score) ==
    IF 10 * score < 3 * Unit THEN "low"
    ELSE IF 10 * score < 6 * Unit THEN "medium"
    ELSE "high"

\* C17: /predict without a body runs the risk engine on the most recently
\* added entry; on an empty store it answers 400 "no data available, submit
\* data first" without running the engine; the store is not modified.
C17_PredictUsesLatestEntry ==
    [][(resp' # None /\ resp'[1].op = "predict_mental_health_risk" /\ resp'[1].request = None) =>
           /\ repo_data' = repo_data
           /\ next_id' = next_id
           /\ IF repo_data = <<>>
              THEN /\ resp'[1].status = 400
                   /\ resp'[1].detail = "No data available. Please submit behavioral data first."
                   /\ resp'[1].evaluated = None
                   /\ resp'[1].raw = None
                   /\ resp'[1].prediction = None
              ELSE LET last == repo_data[Len(repo_data)]
                       score == simple_calculate_risk_score(last)
                   IN  /\ resp'[1].status = 200
                       /\ resp'[1].evaluated = Some(last)
                       /\ resp'[1].prediction[1].risk_score = Round2(score)
                       /\ resp'[1].prediction[1].risk_level = SimpleLevelOf(score)
                       /\ resp'[1].prediction[1].intervention_suggestion
                              \in INTERVENTIONS[SimpleLevelOf(score)]]_vars

\* A calm day stored first and a bad day stored last: the prediction is the
\* bad day's.
C17_Witness ==
    /\ resp # None
    /\ resp[1].op = "predict_mental_health_risk" /\ resp[1].request = None
    /\ Len(repo_data) = 2
    /\ repo_data[1].mood_score = 7 /\ repo_data[2].mood_score = 2
    /\ resp[1].evaluated = Some(repo_data[2])
    /\ resp[1].prediction[1].risk_level = "high"

\* A body with a field outside its domain.
OutsideDomain(b) ==
    \/ b.sleep_hours < 0 \/ b.sleep_hours > 24 * HourUnit
    \/ b.app_usage_hours < 0 \/ b.app_usage_hours > 24 * HourUnit
    \/ b.mood_score < 1 \/ b.mood_score > 10
    \/ b.messages_sent < 0
    \/ b.steps < 0

\* C18: a submission with a field outside its domain is answered as a
\* validation failure: the engine does not run, no entry is appended and no
\* identifier is consumed.
C18_InvalidSubmissionRejected ==
    [][(/\ resp' # None
        /\ resp'[1].op = "add_behavioral_data"
        /\ OutsideDomain(resp'[1].request[1])) =>
           /\ resp'[1].status = 422
           /\ resp'[1].entries = <<>>
           /\ resp'[1].evaluated = None
           /\ repo_data' = repo_data
           /\ next_id' = next_id]_vars

\* Thirty hours of sleep submitted to a store that holds an entry.
C18_Witness ==
    /\ resp # None
    /\ resp[1].op = "add_behavioral_data"
    /\ resp[1].request[1].sleep_hours = 30 * HourUnit
    /\ resp[1].status = 422
    /\ Len(repo_data) = 1
    /\ next_id = 2

\* C19: get_risk_level gives low below 0.3, medium from 0.3 and below 0.6,
\* high from 0.6, and the level answered by predict_risk and by /predict is
\* the level of the score answered with it.
C19_LevelAgreesWithScore ==
    /\ \A score \in {0, 3 * 1000 - 1, 3 * 1000, 6 * 1000 - 1, 6 * 1000, Unit} :
           get_risk_level(score) = SimpleLevelOf(score)
    /\ (resp # None /\ resp[1].op = "predict_mental_health_risk" /\ resp[1].status = 200) =>
           /\ resp[1].raw[1].risk_level = SimpleLevelOf(resp[1].raw[1].risk_score)
           /\ resp[1].prediction[1].risk_level = SimpleLevelOf(resp[1].prediction[1].risk_score)
           /\ resp[1].prediction[1].risk_level = "high" =>
                  10 * resp[1].prediction[1].risk_score >= 6 * Unit
           /\ resp[1].prediction[1].risk_level = "low" =>
                  10 * resp[1].prediction[1].risk_score < 3 * Unit

\* A score of exactly 0.6 answered as high.
C19_Witness ==
    /\ resp # None
    /\ resp[1].op = "predict_mental_health_risk" /\ resp[1].status = 200
    /\ resp[1].request # None
    /\ 10 * resp[1].prediction[1].risk_score = 6 * Unit
    /\ resp[1].prediction[1].risk_level = "high"

\* The store as the claim describes it: as many entries as adds since the
\* last clear, identifiers 1, 2, ..., len in that order, the counter at len + 1.
StoreShape(d, nid, count) ==
    /\ Len(d) = count
    /\ \A i \in 1..Len(d) : d[i].id = i
    /\ nid = Len(d) + 1

\* C28: after any sequence of sequential add and clear operations the store
\* holds exactly the entries added since the last clear, in insertion order,
\* with identifiers 1, 2, ..., len in that order, and the next identifier is
\* len + 1; get_all returns exactly this sequence, and get_by_id(i) returns
\* the entry with identifier i when 1 <= i <= len and None otherwise.
C28_StoreIsEntriesSinceClear ==
    /\ StoreShape(repo_data, next_id, adds)
    /\ [][/\ StoreShape(repo_data', next_id', adds')
          /\ IF resp' # None /\ resp'[1].op = "add_behavioral_data" /\ resp'[1].status = 200
             THEN repo_data' = Append(repo_data,
                                      BehavioralDataResponse(Len(repo_data) + 1,
                                                             resp'[1].request[1]))
             ELSE IF resp' # None /\ resp'[1].op = "clear"
             THEN repo_data' = <<>>
             ELSE repo_data' = repo_data
          /\ (resp' # None /\ resp'[1].op = "get_behavioral_data") =>
                 resp'[1].entries = repo_data'
          /\ (resp' # None /\ resp'[1].op = "get_by_id") =>
                 resp'[1].entries =
                     IF 1 <= resp'[1].n /\ resp'[1].n <= Len(repo_data')
                     THEN <<repo_data'[resp'[1].n]>>
                     ELSE <<>>]_vars

\* An add, a clear and two adds; then get_by_id(2) found the second entry of
\* the two now stored.
C28_Witness ==
    /\ retired = {1}
    /\ adds = 2
    /\ Len(repo_data) = 2
    /\ next_id = 3
    /\ resp # None
    /\ resp[1].op = "get_by_id"
    /\ resp[1].n = 2
    /\ resp[1].entries = <<repo_data[2]>>

-----------------------------------------------------------------------------
(* Properties of the API client *)

\* The request failed: it raised, or it was answered with an error status.
RequestFailed(o) == o.kind = "raises" \/ o.status_code >= 400

\* The value an operation returns for a failure.
FailureValue(op) ==
    IF op = "health_check" THEN ClientBool(FALSE)
    ELSE IF op \in {"submit_data", "predict_risk"} THEN ClientNone
    ELSE ClientEmptyList

\* C20: when the request fails no APIClient operation raises: health_check
\* returns False, submit_data and predict_risk None, get_all_data and
\* get_latest_data an empty list; and health_check returns True only for a
\* status code of 200 with a body whose status is "ok".
C20_FailureValueNotException ==
    call # None =>
        /\ RequestFailed(call[1].outcome) => ret[1] = FailureValue(call[1].op)
        /\ (call[1].op = "health_check" /\ ret[1] = ClientBool(TRUE)) =>
               /\ call[1].outcome.kind = "response"
               /\ call[1].outcome.status_code = 200
               /\ call[1].outcome.body = JsonObject({"status"}, "ok")

\* A submission answered 500 with a JSON body: None is returned.
C20_Witness ==
    /\ call # None
    /\ call[1].op = "submit_data"
    /\ call[1].outcome.kind = "response"
    /\ call[1].outcome.status_code = 500
    /\ call[1].outcome.body = JsonObject({"detail"}, "")
    /\ ret[1] = ClientNone

\* C22: the fallback's confidence is the primary label's hit count over the
\* total hit count, capped at 0.9, and 0.55 when no keyword matches: 0.9 for
\* a text matching a single label, and never above 0.9.
C22_ConfidenceIsCappedShare ==
    (emo # None /\ calls.fallback = 1) =>
        LET prof == KeywordProfile[text]
            c == emo[1].value.confidence
            total == SumOver(Matched(text), prof.hits)
            primary == prof.hits[emo[1].value.primary_emotion]
        IN  /\ IF Matched(text) = {} THEN c = Frac(55, 100)
               ELSE IF 10 * primary > 9 * total THEN c = Frac(9, 10)
               ELSE c = Frac(primary, total)
            /\ Cardinality(Matched(text)) = 1 => c = Frac(9, 10)
            /\ FracLeq(c, Frac(9, 10))

\* Two sadness keywords and one of gratitude: two thirds.
C22_Witness ==
    /\ text = "Grateful SAD, depressed"
    /\ emo # None /\ calls.fallback = 1
    /\ emo[1].value.primary_emotion = "sadness"
    /\ emo[1].value.confidence = Frac(2, 3)

C24_OneAttemptOneFallback ==
    emo # None =>
        /\ calls.remote \in {0, 1}
        /\ calls.fallback \in {0, 1}
        /\ (env.api_key \in {None, Some("")} \/ ~env.openai) =>
               /\ calls.remote = 0
               /\ remote = None
               /\ emo[1].ok /\ emo[1].value = HeuristicResult[text]
        /\ calls.fallback = 1 =>
               (remote = None \/ TryRemote(remote[1]).ok = FALSE)
        /\ (remote # None /\ TryRemote(remote[1]).ok) => calls.fallback = 0

\* A key but no client library: no attempt, the fallback's result.
C24_Witness ==
    /\ emo # None
    /\ env = [api_key |-> Some("sk-test"), openai |-> FALSE]
    /\ calls = [remote |-> 0, fallback |-> 1]
    /\ emo[1].value = HeuristicResult[text]

-----------------------------------------------------------------------------
(* Properties of concurrent requests on the repository *)

StoredIds == [i \in 1..Len(repo_data) |-> repo_data[i].id]

\* C25: when add is invoked concurrently by several request threads, no two
\* stored entries carry the same identifier and no identifier is skipped,
\* under every interleaving of the read of the counter, the append and the
\* increment.
C25_AppendsSerialized ==
    /\ \A i, j \in 1..Len(repo_data) : i # j => StoredIds[i] # StoredIds[j]
    /\ {StoredIds[i] : i \in 1..Len(repo_data)} = 1..Len(repo_data)

-----------------------------------------------------------------------------
(* Properties of the scorers *)

\* The pool the suggestion of a level is drawn from.
PoolOf(risk_level) ==
    IF risk_level \in {"low", "medium", "high"} THEN INTERVENTIONS[risk_level]
    ELSE INTERVENTIONS["medium"]

\* C26: in the simpler engine the suggestion returned by predict_risk is a
\* member of the pool of the level it computed, and the suggestion returned by
\* get_intervention_suggestion is a member of the pool of the level it was
\* given, the medium pool when the level is not low, medium or high.
C26_SuggestionFromLevelPool ==
    /\ simple # None =>
           /\ simple[1].risk_level =
                  SimpleLevelOf(simple_calculate_risk_score(metrics))
           /\ simple[1].suggestion \in PoolOf(simple[1].risk_level)
    /\ suggested # None =>
           suggested[1].suggestion \in PoolOf(suggested[1].risk_level)

\* predict_risk computed medium and a level that is none of the three was
\* given to get_intervention_suggestion: both suggestions are of the medium
\* pool, and the draws differ.
C26_Witness ==
    /\ simple # None
    /\ suggested # None
    /\ simple[1].risk_level = "medium"
    /\ suggested[1].risk_level = "unknown"
    /\ suggested[1].suggestion \in INTERVENTIONS["medium"]
    /\ simple[1].suggestion # suggested[1].suggestion

\* The level the canonical engine gives the input.
CanonicalLevelOf(m) == calculate_risk_score(m).risk_level

\* C30: for every well-formed input the scorer of src/app.py and the scorer
\* of backend/app/risk_calculator.py return the same score and the same
\* level, whereas the canonical engine returns a different level for some
\* input.
C30_IntegratedEqualsSimple ==
    /\ integrated # None =>
           /\ integrated[1].risk_score = simple_calculate_risk_score(metrics)
           /\ integrated[1].risk_level =
                  get_risk_level(simple_calculate_risk_score(metrics))
    /\ (integrated # None /\ simple # None) =>
           /\ integrated[1].risk_score = simple[1].risk_score
           /\ integrated[1].risk_level = simple[1].risk_level
    /\ \E m \in ScorerInputs :
           CanonicalLevelOf(m) # get_risk_level(simple_calculate_risk_score(m))

\* The three scorers have answered for one input: the two agree on a score
\* in [0.3, 0.4), which they call medium, and the canonical engine calls the
\* input low.
C30_Witness ==
    /\ integrated # None
    /\ simple # None
    /\ canon # None
    /\ integrated[1] = [risk_score |-> simple[1].risk_score,
                        risk_level |-> simple[1].risk_level]
    /\ 3000 <= integrated[1].risk_score
    /\ integrated[1].risk_score < 4000
    /\ integrated[1].risk_level = "medium"
    /\ canon[1].risk_level = "low"

-----------------------------------------------------------------------------
(* Properties of the prediction call of the dashboard *)

\* C27: when the request raises a RequestException, predict_risk of the
\* dashboard returns a locally computed result holding risk_score,
\* risk_level, suggestion and color and does not raise; when the API answers
\* with a status other than 200 it returns None.
C27_UnreachableApiComputesLocally ==
    dash # None =>
        /\ dash[1].outcome.kind = "raises" =>
               /\ dash[1].result.kind = "local"
               /\ dash[1].result.body.fields = LocalKeys
        /\ (dash[1].outcome.kind = "response" /\ dash[1].outcome.status_code # 200) =>
               dash[1].result = ClientNone

-----------------------------------------------------------------------------
(* Properties of direct callers of the repository *)

\* What the reads of a store return.
ReadsOf(d) ==
    [all    |-> get_all(d),
     latest |-> [n \in LatestCounts |-> get_latest(d, n)],
     by_id  |-> [i \in EntryIds |-> get_by_id(d, i)]]

\* C29: get_all, get_latest and get_by_id leave the stored sequence and the
\* identifier counter unchanged, and the list get_all or get_latest returns
\* is a separate list: when the caller adds to it or removes from it, what
\* later reads of the store return does not change.
C29_ReadsLeaveStoreAlone ==
    [][/\ (held' # held /\ held' # None /\ ~held'[1].mutated) =>
              (repo_data' = repo_data /\ next_id' = next_id)
       /\ (resp' # None /\ resp'[1].op = "get_by_id") =>
              (repo_data' = repo_data /\ next_id' = next_id)
       /\ (held # None /\ held' # None /\ ~held[1].mutated /\ held'[1].mutated) =>
              /\ held'[1].items # held[1].items
              /\ ReadsOf(repo_data') = ReadsOf(repo_data)
              /\ next_id' = next_id]_vars

\* get_all returned the two stored entries and the caller appended a third
\* to the list it got: the store still holds the two.
C29_Witness ==
    /\ held # None
    /\ held[1].op = "get_all"
    /\ held[1].mutated
    /\ Len(held[1].items) = 3
    /\ Len(repo_data) = 2
    /\ SubSeq(held[1].items, 1, 2) = repo_data

====
